---- MODULE Spec2Model ----
(***************************************************************************)
(* The client-side navigation layer of the panel: SPARouter (click         *)
(* interception, navigate, fetchPageData with retry, history, loading and  *)
(* error UI, hover preloading) of public/javascript/spa-router.js, with    *)
(* the ComponentPersistence hooks navigate calls.                          *)
(*                                                                         *)
(* Strings the code inspects with startsWith/includes (hrefs, error        *)
(* messages) are sequences of tokens, so that those tests are computed.    *)
(* Each handler is a function from the program state (a record of all      *)
(* fields, R) to the program state, composed as the code composes calls;   *)
(* an action applies one handler and assigns every variable from the       *)
(* result.                                                                 *)
(***************************************************************************)
EXTENDS Integers, Sequences, FiniteSets, TLC

\* ------------------------------------------------------------ bounds
\* navigations not yet over (suspended at a fetch, or their afterNavigation timer
\* pending) at one time; user input is held back beyond
MaxNavs == 2
\* entries of the session history
MaxHist == 3
\* failed responses (non-2xx, network error, timeout) the environment produces
MaxFailures == 1
\* router hover preloads in flight at one time
MaxPreloads == 1
\* the clock of the timed specification stops here (ms)
MaxTime == 12000
\* tasks waiting in the preloader's queue
MaxQueue == 2
\* entries in the preloader's cache when the cleanup interval elapses
MaxEntries == 25
\* the clock of the failing preloads stops here (ms)
MaxFailTime == 2000
\* descendants of a persistent region of the content
MaxDescendants == 2

\* ------------------------------------------------------------ program constants
maxRetries == 3
RetryBaseMs == 1000
FetchTimeoutMs == 10000
HoverDelayMs == 100
OverlayDelayMs == 500
AfterNavigationDelayMs == 50
ErrorAutoHideMs == 10000
\* IntelligentPreloader.config and its timers
hoverDelay == 100
maxConcurrentPreloads == 2
maxCacheSize == 20
VisibilityDelayMs == 500
PriorityNavigation == 1
PriorityButtons == 2
PriorityLinks == 3

\* the clock of the timed specification advances in steps of the shortest backoff
TickMs == RetryBaseMs

\* ------------------------------------------------------------ strings as tokens
StartsWith(s, tok) == Len(s) > 0 /\ s[1] = tok

Includes(s, tok) == \E i \in 1..Len(s) : s[i] = tok

\* "" is falsy
Falsy(s) == s = <<>>

\* null / undefined for a path-valued field
NoPath == <<>>

Null == [kind |-> "null"]

\* ------------------------------------------------------------ the served routes
Origin == <<"https", "://", "panel.example">>

Paths == {<<"/a">>, <<"/b">>}

TitleOf(p) == IF p = <<"/a">> THEN "AirLink - A" ELSE "AirLink - B"

\* the Page Fragment of route p as rendered at version v (scripts and styles empty)
Fragment(p, v) ==
  [kind |-> "fragment", content |-> [route |-> p, ver |-> v], title |-> TitleOf(p)]

Truthy(pageData) == pageData.kind # "null"

\* ------------------------------------------------------------ the document
\* an <a href> element: href tokens, target, attributes and classes
Link(href, target, attrs, classes) ==
  [href |-> href, target |-> target, attrs |-> attrs, classes |-> classes]

NavLinkA == Link(<<"/a">>, "", {}, {"nav-link"})
NavLinkB == Link(<<"/b">>, "", {}, {"nav-link"})
HashLink == Link(<<"#", "top">>, "", {}, {})
MailLink == Link(<<"mailto:", "ops@panel.example">>, "", {}, {})
TelLink == Link(<<"tel:", "+100">>, "", {}, {})
CrossOriginLink == Link(<<"https", "://", "cdn.example", "/x">>, "", {}, {})
BlankLink == Link(<<"/b">>, "_blank", {}, {})
NoSpaLink == Link(<<"/b">>, "", {"data-no-spa"}, {})
ExternalClassLink == Link(<<"/a">>, "", {}, {"external-link"})
DownloadLink == Link(<<"/a">>, "", {"download"}, {})
EmptyHrefLink == Link(<<>>, "", {}, {})
SameOriginLink == Link(Origin \o <<"/a">>, "", {}, {})
NoPreloadLink == Link(<<"/b">>, "", {"data-no-preload"}, {})
ButtonLink == Link(<<"/b">>, "", {}, {"btn"})
PlainLink == Link(<<"/c">>, "", {}, {})
\* a link to /a spelled with a trailing slash
SlashLinkA == Link(<<"/a", "/">>, "", {}, {})

\* the links of the chrome and the content of every page
AllLinks ==
  {NavLinkA, NavLinkB, HashLink, MailLink, TelLink, CrossOriginLink, BlankLink,
   NoSpaLink, ExternalClassLink, DownloadLink, EmptyHrefLink, SameOriginLink}

\* ids of the elements the router looks up
AllHooks ==
  {"spa-content", "spa-loading", "spa-loading-overlay", "spa-error",
   "spa-error-message", "spa-error-retry", "spa-error-dismiss",
   "active-background", "nav-ul", "componentPersistence"}

ScrollOffsets == {0, 120}

\* ------------------------------------------------------------ state
VARIABLES
  timed,            \* TRUE: timers fire by the clock; FALSE: a pending timer may fire at any moment
  now,              \* the clock (ms), Date.now()
  doc,              \* the links of the document
  dom,              \* the ids present in the document (DOM contract)
  net,              \* what the network can answer: [versions, bodies, failures]
  lim,              \* how much may be pending at one time: [navs, hist, preloads]
  pageAlive,        \* FALSE once a native navigation has unloaded the document
  failBudget,       \* failed responses the environment may still produce
  event,            \* the UI event whose handlers have run and whose default action is due
  isNavigating,     \* SPARouter.isNavigating
  currentRoute,     \* SPARouter.currentRoute
  cache,            \* SPARouter.cache (confirmed)
  preloadCache,     \* SPARouter.preloadCache (speculative)
  lastFailedPath,   \* SPARouter.lastFailedPath
  loadingTimeout,   \* SPARouter.loadingTimeout: <<>> or <<due>> while the overlay timer is pending
  navs,             \* navigate calls suspended in fetchPageData, oldest first
  preloads,         \* SPARouter.preloadPage calls suspended at their fetch
  preloadTimeout,   \* the hover timer of setupPreloading: <<>> or <<[href, due]>>
  content,          \* contentContainer.innerHTML
  title,            \* document.title
  hist,             \* session history entries [state, url]
  histIdx,          \* the current entry
  indicatorShown,   \* #spa-loading lacks class hidden
  overlayShown,     \* #spa-loading-overlay lacks class hidden
  errorShown,       \* #spa-error lacks class hidden
  errorMessage,     \* #spa-error-message textContent
  errorTimers,      \* due times of the pending auto-hide timers
  activeLinks,      \* hrefs of the .nav-link elements carrying class active
  scrollTop,        \* #sidebar scrollTop
  componentStates,  \* ComponentPersistence.componentStates
  staticComponents, \* ComponentPersistence.staticComponents, in the order of registration
  nodes,            \* the persistent regions the content has held, out of the document or in it
  afterNavTimers,   \* due times of the pending afterNavigation timers
  fetchLog,         \* timed specification: the requests, responses and timer settings of fetchPageData
  preloader         \* window.preloader: the IntelligentPreloader's fields and timers

vars ==
  <<timed, now, doc, dom, net, lim, pageAlive, failBudget, event, isNavigating, currentRoute,
    cache, preloadCache, lastFailedPath, loadingTimeout, navs, preloads,
    preloadTimeout, content, title, hist, histIdx, indicatorShown, overlayShown,
    errorShown, errorMessage, errorTimers, activeLinks, scrollTop, componentStates,
    staticComponents, nodes, afterNavTimers, fetchLog, preloader>>

\* the program state as one record; calls and defaultPrevented report what the
\* handler being run has done so far, exc is the exception being thrown
R ==
  [isNavigating |-> isNavigating, currentRoute |-> currentRoute, cache |-> cache,
   preloadCache |-> preloadCache, lastFailedPath |-> lastFailedPath,
   loadingTimeout |-> loadingTimeout, navs |-> navs, preloads |-> preloads,
   preloadTimeout |-> preloadTimeout, content |-> content, title |-> title,
   hist |-> hist, histIdx |-> histIdx, indicatorShown |-> indicatorShown,
   overlayShown |-> overlayShown, errorShown |-> errorShown,
   errorMessage |-> errorMessage, errorTimers |-> errorTimers,
   activeLinks |-> activeLinks, scrollTop |-> scrollTop,
   componentStates |-> componentStates, staticComponents |-> staticComponents,
   nodes |-> nodes, afterNavTimers |-> afterNavTimers,
   fetchLog |-> fetchLog, preloader |-> preloader, calls |-> <<>>,
   defaultPrevented |-> FALSE, exc |-> Null]

SetState(state) ==
  \E r \in {state} :
    /\ isNavigating' = r.isNavigating
    /\ currentRoute' = r.currentRoute
    /\ cache' = r.cache
    /\ preloadCache' = r.preloadCache
    /\ lastFailedPath' = r.lastFailedPath
    /\ loadingTimeout' = r.loadingTimeout
    /\ navs' = r.navs
    /\ preloads' = r.preloads
    /\ preloadTimeout' = r.preloadTimeout
    /\ content' = r.content
    /\ title' = r.title
    /\ hist' = r.hist
    /\ histIdx' = r.histIdx
    /\ indicatorShown' = r.indicatorShown
    /\ overlayShown' = r.overlayShown
    /\ errorShown' = r.errorShown
    /\ errorMessage' = r.errorMessage
    /\ errorTimers' = r.errorTimers
    /\ activeLinks' = r.activeLinks
    /\ scrollTop' = r.scrollTop
    /\ componentStates' = r.componentStates
    /\ staticComponents' = r.staticComponents
    /\ nodes' = r.nodes
    /\ afterNavTimers' = r.afterNavTimers
    /\ fetchLog' = r.fetchLog
    /\ preloader' = r.preloader

\* ------------------------------------------------------------ maps and timers
EmptyMap == [k \in {} |-> Null]

MapHas(m, k) == k \in DOMAIN m

\* Map.get: undefined (falsy) when absent
MapGet(m, k) == IF k \in DOMAIN m THEN m[k] ELSE Null

MapSet(m, k, v) == [x \in (DOMAIN m) \cup {k} |-> IF x = k THEN v ELSE m[x]]

MapDeleteMutant(m, k) == m

MapDelete(m, k) == [x \in (DOMAIN m) \ {k} |-> m[x]]

\* the due time of setTimeout(f, ms)
After(ms) == IF timed THEN now + ms ELSE 0

\* a timer never fires before its delay has elapsed
TimerDue(due) == ~timed \/ now >= due

RemoveAt(s, i) == SubSeq(s, 1, i - 1) \o SubSeq(s, i + 1, Len(s))

Log(r, entry) ==
  IF timed THEN [r EXCEPT !.fetchLog = Append(@, entry)] ELSE r

\* ------------------------------------------------------------ errors and responses
Error(name, message) == [kind |-> "error", name |-> name, message |-> message]

StatusText(status) ==
  CASE status = 403 -> <<"403:", "Forbidden">>
    [] status = 404 -> <<"404:", "Not", "Found">>
    [] status = 500 -> <<"500:", "Internal", "Server", "Error">>
    [] status = 503 -> <<"503:", "Service", "Unavailable">>
    [] OTHER -> <<"200:", "OK">>

\* new Error(`HTTP ${response.status}: ${response.statusText}`)
HttpError(status) == Error("Error", <<"HTTP">> \o StatusText(status))

\* what fetch rejects with when controller.abort() runs
AbortError == Error("AbortError", <<"The", "user", "aborted", "a", "request.">>)

TimeoutError ==
  Error("Error", <<"Request", "timeout", "-", "please", "check", "your", "connection">>)

\* response.json() of a body that is not JSON
JsonError == Error("SyntaxError", <<"Unexpected", "end", "of", "JSON", "input">>)

\* the TypeError of a connection-level failure; its message is the browser's own
NetworkErrors ==
  {Error("TypeError", <<"Failed", "to", "fetch">>),
   Error("TypeError", <<"NetworkError", "when", "attempting", "to", "fetch", "resource.">>),
   Error("TypeError", <<"Load", "failed">>)}

FailStatuses == {403, 404, 500, 503}

NotJson == [kind |-> "notjson"]

Http(status, body) == [type |-> "http", status |-> status, body |-> body]

Reject(error) == [type |-> "reject", error |-> error]

\* response.ok
Ok(status) == status >= 200 /\ status <= 299

\* every failure of a request: a non-2xx status or a rejected fetch
AllFailures ==
  {Http(st, Null) : st \in FailStatuses} \cup {Reject(e) : e \in NetworkErrors}

\* every kind of 200 body: a Page Fragment, JSON null, not JSON
AllBodies == {"fragment", "null", "notjson"}

\* the route app._router.handle matches the request path to: Express routing is
\* not strict, a trailing slash is optional
RouteOf(path) ==
  IF Len(path) > 1 /\ path[Len(path)] = "/" THEN SubSeq(path, 1, Len(path) - 1) ELSE path

\* what the fragment endpoint, or the network on the way to it, can answer for a
\* path, among the answers net admits
ServerResponses(path) ==
  (IF RouteOf(path) \in Paths
     THEN {Http(200, b) : b \in {x \in {Fragment(RouteOf(path), v) : v \in net.versions}
                                          \cup {Null, NotJson} : x.kind \in net.bodies}}
     ELSE {})
  \cup net.failures

Failed(resp) == resp.type = "reject" \/ ~Ok(resp.status)

\* ------------------------------------------------------------ fetchPageData
\* const retryDelay = 1000 * Math.pow(2, retryCount)
RetryDelayMutant(retryCount) == RetryBaseMs * retryCount

RetryDelay(retryCount) == RetryBaseMs * (2 ^ retryCount)

Retry(retryCount) == [kind |-> "retry", delay |-> RetryDelay(retryCount)]

Return(data) == [kind |-> "return", data |-> data]

Throw(error) == [kind |-> "throw", error |-> error]

FetchCatchMutant(retryCount, error) ==
  IF /\ retryCount < maxRetries
     /\ (Includes(error.message, "fetch") \/ Includes(error.message, "network"))
    THEN [kind |-> "retry", delay |-> RetryBaseMs * (2 ^ retryCount)]
  ELSE [kind |-> "throw", error |-> error]

\* the catch block
FetchCatch(retryCount, error) ==
  IF error.name = "AbortError" THEN Throw(TimeoutError)
  ELSE IF /\ retryCount < maxRetries
          /\ (Includes(error.message, "fetch") \/ Includes(error.message, "network"))
    THEN Retry(retryCount)
  ELSE Throw(error)

FetchSettledOffByOne(retryCount, resp) ==
  IF resp.type = "reject" THEN FetchCatch(retryCount, resp.error)
  ELSE IF ~Ok(resp.status)
    THEN IF resp.status >= 500 /\ retryCount <= maxRetries
           THEN Retry(retryCount)
           ELSE FetchCatch(retryCount, HttpError(resp.status))
  ELSE IF resp.body = NotJson THEN FetchCatch(retryCount, JsonError)
  ELSE Return(resp.body)

FetchSettledMutant(retryCount, resp) ==
  IF resp.type = "reject" THEN FetchCatch(retryCount, resp.error)
  ELSE IF ~Ok(resp.status)
    THEN IF resp.status >= 400 /\ retryCount < maxRetries
           THEN Retry(retryCount)
           ELSE FetchCatch(retryCount, HttpError(resp.status))
  ELSE IF resp.body = NotJson THEN FetchCatch(retryCount, JsonError)
  ELSE Return(resp.body)

\* the try block from the point where the awaited fetch settles
FetchSettled(retryCount, resp) ==
  IF resp.type = "reject" THEN FetchCatch(retryCount, resp.error)
  ELSE IF ~Ok(resp.status)
    THEN IF resp.status >= 500 /\ retryCount < maxRetries
           THEN Retry(retryCount)
           ELSE FetchCatch(retryCount, HttpError(resp.status))
  ELSE IF resp.body = NotJson THEN FetchCatch(retryCount, JsonError)
  ELSE Return(resp.body)

\* a navigate call suspended in fetchPageData: at the fetch (due: the abort timer)
\* or at the backoff (due: the retry timer)
NavCall(path, pushState, isInitial, retryCount, phase, due) ==
  [path |-> path, pushState |-> pushState, isInitial |-> isInitial,
   retryCount |-> retryCount, phase |-> phase, due |-> due]

\* fetch(`/api/page-content${path}`, {signal}) with the 10 s abort timer set
IssueFetch(r, path, pushState, isInitial, retryCount) ==
  Log([r EXCEPT !.navs = Append(@, NavCall(path, pushState, isInitial, retryCount,
                                            "fetch", After(FetchTimeoutMs)))],
      [what |-> "request", at |-> now, retryCount |-> retryCount])

\* ------------------------------------------------------------ loading and error UI
ShowLoadingState(r) ==
  [r EXCEPT !.indicatorShown = IF "spa-loading" \in dom THEN TRUE ELSE @,
            !.loadingTimeout = <<After(OverlayDelayMs)>>]

HideLoadingState(r) ==
  [r EXCEPT !.loadingTimeout = <<>>,
            !.indicatorShown = IF "spa-loading" \in dom THEN FALSE ELSE @,
            !.overlayShown = IF "spa-loading-overlay" \in dom THEN FALSE ELSE @]

DefaultErrorMessage ==
  <<"An", "unexpected", "error", "occurred", "while", "loading", "the", "page.">>

ShowErrorState(r, error) ==
  LET r1 == [r EXCEPT !.lastFailedPath = r.currentRoute] IN
  IF "spa-error" \in dom /\ "spa-error-message" \in dom
    THEN [r1 EXCEPT !.errorMessage =
                       IF Falsy(error.message) THEN DefaultErrorMessage ELSE error.message,
                    !.errorShown = TRUE,
                    !.errorTimers = Append(@, After(ErrorAutoHideMs))]
    ELSE r1

HideErrorState(r) ==
  IF "spa-error" \in dom THEN [r EXCEPT !.errorShown = FALSE] ELSE r

\* ------------------------------------------------------------ active navigation link
\* the .nav-link elements in document order
NavLinks == SelectSeq(<<NavLinkA, NavLinkB>>, LAMBDA l : l \in doc)

RECURSIVE StripTrailingSlashes(_)
StripTrailingSlashes(p) ==
  IF Len(p) > 0 /\ p[Len(p)] = "/" THEN StripTrailingSlashes(SubSeq(p, 1, Len(p) - 1)) ELSE p

\* new URL(path, origin).pathname for an absolute URL or a path
Pathname(p) == IF Includes(p, "://") THEN SubSeq(p, 4, Len(p)) ELSE p

NormalizePath(p) ==
  LET stripped == StripTrailingSlashes(Pathname(p)) IN
  IF stripped = <<>> THEN <<"/">> ELSE stripped

UpdateActiveNavigation(r, path) ==
  LET matching == SelectSeq(NavLinks, LAMBDA l :
                    ~Falsy(l.href) /\ NormalizePath(l.href) = NormalizePath(path)) IN
  IF matching # <<>> /\ "active-background" \in dom
    THEN LET r1 == [r EXCEPT !.activeLinks = {matching[1].href}] IN
         IF "nav-ul" \in dom THEN r1
         ELSE [r1 EXCEPT !.exc = Error("TypeError",
                 <<"Cannot", "read", "properties", "of", "null">>)]
    ELSE [r EXCEPT !.activeLinks = {}]

\* ------------------------------------------------------------ component persistence
\* An element of a persistent region: the region itself (children its descendants
\* in document order) or one descendant. attrs and fields are lists of
\* [name, value]; an attribute name is a token list, <<"data-", "toggle">>.
Element(tag, id, classes, attrs) ==
  [tag |-> tag, id |-> id, classes |-> classes, attrs |-> attrs, style |-> "",
   fields |-> <<>>, href |-> <<>>, scrollTop |-> 0, scrollLeft |-> 0,
   connected |-> TRUE, children |-> <<>>]

Pair(name, value) == [name |-> name, value |-> value]

\* obj[name], undefined as ""
ObjectGet(obj, name) ==
  IF \E i \in DOMAIN obj : obj[i].name = name
    THEN obj[CHOOSE i \in DOMAIN obj : obj[i].name = name].value
    ELSE ""

\* obj[name] = value: an own key keeps its place, a new key comes last
ObjectSet(obj, name, value) ==
  IF \E i \in DOMAIN obj : obj[i].name = name
    THEN [i \in DOMAIN obj |-> IF obj[i].name = name THEN Pair(name, value) ELSE obj[i]]
    ELSE Append(obj, Pair(name, value))

RECURSIVE FromEntries(_)
\* Object.fromEntries(entries)
FromEntries(entries) ==
  IF entries = <<>> THEN <<>>
  ELSE ObjectSet(FromEntries(SubSeq(entries, 1, Len(entries) - 1)),
                 entries[Len(entries)].name, entries[Len(entries)].value)

HasClass(el, c) == \E i \in DOMAIN el.classes : el.classes[i] = c

HasAttribute(el, name) == \E i \in DOMAIN el.attrs : el.attrs[i].name = name

\* class names a CSS selector cannot spell unescaped: [ opens an attribute
\* selector, : a pseudo-class
CssUnsafe == {"font-[405]", "dark:text-white"}

\* the classes updateActiveNavigation adds to the matching link
ActiveClasses == <<"active", "text-neutral-950", "font-[405]", "dark:text-white">>

IdSelector(id) == [kind |-> "id", name |-> id, classes |-> <<>>]

TagSelector(tag, classes) == [kind |-> "tag", name |-> tag, classes |-> classes]

\* '[data-toggle]'
ToggleSelector == [kind |-> "attr", name |-> "data-toggle", classes |-> <<>>]

\* querySelector throws a SyntaxError for a selector that is not valid CSS
ValidSelector(sel) == \A i \in DOMAIN sel.classes : sel.classes[i] \notin CssUnsafe

Matches(el, sel) ==
  CASE sel.kind = "id" -> el.id = sel.name
    [] sel.kind = "attr" -> HasAttribute(el, <<"data-", "toggle">>)
    [] OTHER -> el.tag = sel.name /\ \A i \in DOMAIN sel.classes : HasClass(el, sel.classes[i])

\* element.querySelector(sel) among the descendants: the index of the first
\* match in document order, 0 for null
QuerySelector(element, sel) ==
  IF \E i \in DOMAIN element.children : Matches(element.children[i], sel)
    THEN CHOOSE i \in DOMAIN element.children :
           /\ Matches(element.children[i], sel)
           /\ \A j \in 1..(i - 1) : ~Matches(element.children[j], sel)
    ELSE 0

\* selector.replace(/[^a-zA-Z0-9]/g, '_')
Sanitized(selector) ==
  CASE selector = ".sidebar" -> "_sidebar"
    [] selector = ".topbar" -> "_topbar"
    [] selector = ".footer" -> "_footer"
    [] selector = "[data-persist=\"true\"]" -> "_data_persist__true__"
    [] OTHER -> selector

\* generateComponentId(selector) when Date.now() reads t
GenerateComponentId(selector, t) ==
  "component_" \o Sanitized(selector) \o "_" \o ToString(t)

GetElementSelectorMutant(element) ==
  IF element.id # "" THEN IdSelector(element.id)
  ELSE TagSelector(element.tag, <<>>)

GetElementSelector(element) ==
  IF element.id # "" THEN IdSelector(element.id)
  ELSE TagSelector(element.tag, element.classes)

GetElementAttributes(element) ==
  SelectSeq(element.attrs,
            LAMBDA a : StartsWith(a.name, "data-") \/ a.name = <<"aria-current">>)

\* '.active, .nav-link.active, [aria-current="page"]'
IsActiveElement(el) ==
  HasClass(el, "active") \/ ObjectGet(el.attrs, <<"aria-current">>) = "page"

\* '[data-toggle], .collapsed, .expanded'
IsToggleElement(el) ==
  HasAttribute(el, <<"data-", "toggle">>) \/ HasClass(el, "collapsed") \/ HasClass(el, "expanded")

RECURSIVE CaptureForms(_, _, _)
\* state.formData after the forms among the first n descendants; times[i] is
\* what Date.now() reads when descendant i is visited
CaptureForms(element, times, n) ==
  IF n = 0 THEN <<>>
  ELSE LET form == element.children[n]
           sofar == CaptureForms(element, times, n - 1)
       IN IF form.tag # "form" THEN sofar
          ELSE ObjectSet(sofar,
                         IF form.id # "" THEN form.id
                         ELSE GenerateComponentId("form", times[n]),
                         FromEntries(form.fields))

RECURSIVE CaptureToggles(_, _, _)
CaptureToggles(element, times, n) ==
  IF n = 0 THEN <<>>
  ELSE LET toggle == element.children[n]
           sofar == CaptureToggles(element, times, n - 1)
       IN IF ~IsToggleElement(toggle) THEN sofar
          ELSE ObjectSet(sofar,
                         IF toggle.id # "" THEN toggle.id
                         ELSE GenerateComponentId("toggle", times[n]),
                         [classes |-> toggle.classes,
                          attributes |-> GetElementAttributes(toggle),
                          style |-> toggle.style])

CaptureComponentState(element, times) ==
  LET active == SelectSeq(element.children, IsActiveElement) IN
  [scrollPosition |-> [top |-> element.scrollTop, left |-> element.scrollLeft],
   activeElements |-> [i \in DOMAIN active |->
                         [selector |-> GetElementSelector(active[i]),
                          classes |-> active[i].classes,
                          attributes |-> GetElementAttributes(active[i])]],
   formData |-> CaptureForms(element, times, Len(element.children)),
   customData |-> CaptureToggles(element, times, Len(element.children))]

RECURSIVE SetAttributes(_, _)
\* Object.entries(attributes).forEach(([name, value]) => el.setAttribute(name, value))
SetAttributes(el, attributes) ==
  IF attributes = <<>> THEN el
  ELSE SetAttributes([el EXCEPT !.attrs = ObjectSet(@, attributes[1].name, attributes[1].value)],
                     Tail(attributes))

RECURSIVE SetValues(_, _)
\* form.querySelector('[name="..."]').value = value, for every entry of data
SetValues(form, data) ==
  IF data = <<>> THEN form
  ELSE SetValues([form EXCEPT !.fields =
                    IF \E i \in DOMAIN @ : @[i].name = data[1].name
                      THEN LET first == CHOOSE i \in DOMAIN @ :
                                          /\ @[i].name = data[1].name
                                          /\ \A j \in 1..(i - 1) : @[j].name # data[1].name
                           IN [@ EXCEPT ![first].value = data[1].value]
                      ELSE @],
                 Tail(data))

RECURSIVE RestoreActiveElements(_, _)
\* the forEach over state.activeElements; it ends at the first selector
\* querySelector rejects
RestoreActiveElements(element, infos) ==
  IF infos = <<>> THEN [element |-> element, exc |-> Null]
  ELSE IF ~ValidSelector(infos[1].selector)
    THEN [element |-> element,
          exc |-> Error("SyntaxError", <<"not", "a", "valid", "selector">>)]
  ELSE LET target == QuerySelector(element, infos[1].selector) IN
       RestoreActiveElements(
         IF target = 0 THEN element
         ELSE [element EXCEPT !.children[target] =
                 SetAttributes([@ EXCEPT !.classes = infos[1].classes], infos[1].attributes)],
         Tail(infos))

\* element.querySelector(`#${id}`) || element.querySelector(fallback)
QueryIdOr(element, id, fallback) ==
  IF QuerySelector(element, IdSelector(id)) # 0 THEN QuerySelector(element, IdSelector(id))
  ELSE QuerySelector(element, fallback)

RECURSIVE RestoreForms(_, _)
RestoreForms(element, formData) ==
  IF formData = <<>> THEN element
  ELSE LET form == QueryIdOr(element, formData[1].name, TagSelector("form", <<>>)) IN
       RestoreForms(IF form = 0 THEN element
                    ELSE [element EXCEPT !.children[form] = SetValues(@, formData[1].value)],
                    Tail(formData))

RECURSIVE RestoreToggles(_, _)
RestoreToggles(element, customData) ==
  IF customData = <<>> THEN element
  ELSE LET toggle == QueryIdOr(element, customData[1].name, ToggleSelector)
           data == customData[1].value
       IN RestoreToggles(
            IF toggle = 0 THEN element
            ELSE [element EXCEPT !.children[toggle] =
                    [SetAttributes([@ EXCEPT !.classes = data.classes], data.attributes)
                       EXCEPT !.style = IF data.style # "" THEN data.style ELSE @]],
            Tail(customData))

\* restoreComponentState(element, state): the element as it is left, and the
\* exception that ended the call (Null: none). An element out of the document
\* has no scroll box: its offsets stay 0.
RestoreComponentState(element, state) ==
  LET scrolled == IF element.connected
                    THEN [element EXCEPT !.scrollTop = state.scrollPosition.top,
                                         !.scrollLeft = state.scrollPosition.left]
                    ELSE element
      active == RestoreActiveElements(scrolled, state.activeElements)
  IN IF active.exc # Null THEN active
     ELSE [element |-> RestoreToggles(RestoreForms(active.element, state.formData),
                                      state.customData),
           exc |-> Null]

\* the link of the sidebar for a navigation link of the document, with the
\* classes updateActiveNavigation has left on it
NavLinkElement(r, link) ==
  [Element("a", "", <<"nav-link">> \o (IF link.href \in r.activeLinks THEN ActiveClasses
                                       ELSE <<>>), <<>>)
     EXCEPT !.href = link.href]

\* #sidebar, part of the chrome: its scroll offset is scrollTop, its descendants
\* are the navigation links
Sidebar(r) ==
  [Element("aside", "sidebar", <<>>, <<>>)
     EXCEPT !.scrollTop = r.scrollTop,
            !.children = [i \in DOMAIN NavLinks |-> NavLinkElement(r, NavLinks[i])]]

\* the element a static component refers to: node 0 is #sidebar, node n > 0 is
\* the n-th persistent region the content has held
ElementOf(r, node) == IF node = 0 THEN Sidebar(r) ELSE r.nodes[node]

\* the element written back
StoreElement(r, node, el) ==
  IF node = 0
    THEN [r EXCEPT !.scrollTop = el.scrollTop,
                   !.activeLinks = {el.children[i].href : i \in
                                      {j \in DOMAIN el.children : HasClass(el.children[j], "active")}}]
    ELSE [r EXCEPT !.nodes[node] = el]

StaticSelectors ==
  <<"#sidebar", "#topbar", "#footer", ".sidebar", ".topbar", ".footer",
    "[data-persist=\"true\"]">>

MatchesStatic(el, selector) ==
  CASE selector = "#sidebar" -> el.id = "sidebar"
    [] selector = "#topbar" -> el.id = "topbar"
    [] selector = "#footer" -> el.id = "footer"
    [] selector = ".sidebar" -> HasClass(el, "sidebar")
    [] selector = ".topbar" -> HasClass(el, "topbar")
    [] selector = ".footer" -> HasClass(el, "footer")
    [] OTHER -> ObjectGet(el.attrs, <<"data-", "persist">>) = "true"

\* Date.now() read once for every descendant of the element
Readings(el, t) == [i \in DOMAIN el.children |-> t]

HasComponent(r, id) == \E k \in DOMAIN r.staticComponents : r.staticComponents[k].id = id

\* this.staticComponents.get(id): its index, 0 for undefined
ComponentIndex(r, id) ==
  IF HasComponent(r, id)
    THEN CHOOSE k \in DOMAIN r.staticComponents : r.staticComponents[k].id = id
    ELSE 0

\* the body of elements.forEach for the element at node
RegisterComponent(r, selector, node) ==
  LET el == ElementOf(r, node)
      componentId == IF el.id # "" THEN el.id ELSE GenerateComponentId(selector, now)
      component == [id |-> componentId, node |-> node, selector |-> selector,
                    state |-> CaptureComponentState(el, Readings(el, now))]
  IN IF HasComponent(r, IF el.id # "" THEN el.id ELSE selector) THEN r
     ELSE IF HasComponent(r, componentId)
       THEN [r EXCEPT !.staticComponents[ComponentIndex(r, componentId)] = component]
     ELSE [r EXCEPT !.staticComponents = Append(@, component)]

RECURSIVE RegisterMatching(_, _, _)
\* document.querySelectorAll(selector).forEach up to node: #sidebar (node 0), then
\* the regions of the content that are in the document
RegisterMatching(r, selector, node) ==
  IF node < 0 THEN r
  ELSE LET sofar == RegisterMatching(r, selector, node - 1)
           el == ElementOf(sofar, node)
       IN IF el.connected /\ MatchesStatic(el, selector)
            THEN RegisterComponent(sofar, selector, node) ELSE sofar

RECURSIVE IdentifyUpTo(_, _)
\* staticSelectors.forEach up to the s-th selector
IdentifyUpTo(r, s) ==
  IF s = 0 THEN r
  ELSE LET sofar == IdentifyUpTo(r, s - 1) IN
       RegisterMatching(sofar, StaticSelectors[s], Len(r.nodes))

IdentifyStaticComponents(r) == IdentifyUpTo(r, Len(StaticSelectors))

RECURSIVE PreserveUpTo(_, _)
PreserveUpTo(r, k) ==
  IF k = 0 THEN r
  ELSE LET sofar == PreserveUpTo(r, k - 1) IN
       [sofar EXCEPT !.componentStates =
          MapSet(@, r.staticComponents[k].id, r.staticComponents[k].state)]

PreserveComponentStates(r) == PreserveUpTo(r, Len(r.staticComponents))

\* new ComponentPersistence()
ComponentPersistenceInit(r) ==
  LET identified == IdentifyStaticComponents(r) IN PreserveComponentStates(identified)

BeforeNavigationMutant(r) == r

RECURSIVE BeforeNavigationUpTo(_, _)
\* this.staticComponents.forEach up to the k-th component
BeforeNavigationUpTo(r, k) ==
  IF k = 0 THEN r
  ELSE LET sofar == BeforeNavigationUpTo(r, k - 1)
           component == r.staticComponents[k]
           el == ElementOf(r, component.node)
       IN [sofar EXCEPT !.componentStates =
             MapSet(@, component.id, CaptureComponentState(el, Readings(el, now)))]

BeforeNavigation(r) == BeforeNavigationUpTo(r, Len(r.staticComponents))

RECURSIVE RestoreUpTo(_, _)
\* this.componentStates.forEach up to the state of the k-th component, the
\* states in the order their components were registered; an exception ends it
RestoreUpTo(r, k) ==
  IF k = 0 THEN r
  ELSE LET sofar == RestoreUpTo(r, k - 1)
           component == r.staticComponents[k]
       IN IF sofar.exc # Null \/ ~MapHas(r.componentStates, component.id) THEN sofar
          ELSE LET out == RestoreComponentState(ElementOf(sofar, component.node),
                                                r.componentStates[component.id])
                   stored == StoreElement(sofar, component.node, out.element)
               IN [stored EXCEPT !.exc = out.exc]

RestoreComponentStates(r) == RestoreUpTo(r, Len(r.staticComponents))

\* afterNavigation(); exc is the exception it ends with
AfterNavigation(r) ==
  LET identified == IdentifyStaticComponents([r EXCEPT !.exc = Null]) IN
  RestoreComponentStates(identified)

\* ------------------------------------------------------------ navigate
\* innerHTML = pageData.content takes every element the content held out of the
\* document (a fragment brings elements of its own)
RenderPage(r, pageData) ==
  IF "spa-content" \notin dom THEN r
  ELSE [r EXCEPT !.content = pageData.content,
                 !.title = IF pageData.title # "" THEN pageData.title ELSE @,
                 !.nodes = [n \in DOMAIN @ |->
                              [@[n] EXCEPT !.connected = FALSE, !.scrollTop = 0,
                                           !.scrollLeft = 0]]]

HistoryEntry(r, path, pageData) ==
  [state |-> [kind |-> "state", path |-> path, timestamp |-> now,
              title |-> IF pageData.title # "" THEN pageData.title ELSE r.title],
   url |-> path]

PushState(r, entry) ==
  [r EXCEPT !.hist = Append(SubSeq(@, 1, r.histIdx), entry), !.histIdx = @ + 1]

ReplaceStateMutant(r, entry) ==
  [r EXCEPT !.hist = Append(SubSeq(@, 1, r.histIdx), entry), !.histIdx = @ + 1]

ReplaceState(r, entry) == [r EXCEPT !.hist[r.histIdx] = entry]

\* the body of if (pageData) { ... }, and the catch block when it throws
NavigateRender(r, path, pushState, isInitial, pageData) ==
  LET r1 == RenderPage(r, pageData)
      r2 == [r1 EXCEPT !.cache = MapSet(@, path, pageData),
                       !.preloadCache = MapDelete(@, path)]
      r3 == IF pushState /\ ~isInitial THEN PushState(r2, HistoryEntry(r2, path, pageData))
            ELSE IF isInitial THEN ReplaceState(r2, HistoryEntry(r2, path, pageData))
            ELSE r2
      r4 == UpdateActiveNavigation([r3 EXCEPT !.currentRoute = path], path)
  IN IF r4.exc # Null THEN ShowErrorState([r4 EXCEPT !.exc = Null], r4.exc)
     ELSE IF "componentPersistence" \in dom
       THEN [r4 EXCEPT !.afterNavTimers = Append(@, After(AfterNavigationDelayMs))]
     ELSE r4

NavigateFinallyMutant(r) == HideLoadingState(r)

NavigateFinally(r) == [HideLoadingState(r) EXCEPT !.isNavigating = FALSE]

NavigateDroppedMutant(r, isInitial) == r.isNavigating /\ isInitial

\* the guard of navigate
NavigateDropped(r, isInitial) == r.isNavigating /\ ~isInitial

ResolveCachedMutant(r, path) == MapGet(r.preloadCache, path)

\* let pageData = this.cache.get(path) || this.preloadCache.get(path)
ResolveCached(r, path) ==
  IF Truthy(MapGet(r.cache, path)) THEN MapGet(r.cache, path)
  ELSE MapGet(r.preloadCache, path)

\* what a call does, for the report in calls
Resolution(r, path, isInitial) ==
  IF NavigateDropped(r, isInitial) THEN "dropped"
  ELSE IF Truthy(MapGet(r.cache, path)) THEN "cache"
  ELSE IF Truthy(MapGet(r.preloadCache, path)) THEN "preload"
  ELSE "network"

\* navigate(path, pushState, isInitial) up to its first suspension
Navigate(r0, path, pushState, isInitial) ==
  LET r == [r0 EXCEPT !.calls = Append(@, [path |-> path, pushState |-> pushState,
                                            isInitial |-> isInitial,
                                            did |-> Resolution(r0, path, isInitial)])] IN
  IF NavigateDropped(r, isInitial) THEN r
  ELSE LET r1 == ShowLoadingState([r EXCEPT !.isNavigating = TRUE])
           r2 == IF "componentPersistence" \in dom /\ ~isInitial
                   THEN BeforeNavigation(r1) ELSE r1
           pageData == ResolveCached(r2, path)
       IN IF Truthy(pageData)
            THEN NavigateFinally(NavigateRender(r2, path, pushState, isInitial, pageData))
            ELSE IssueFetch(r2, path, pushState, isInitial, 0)

NavigateResumeMutant(r0, i, outcome) ==
  LET nav == r0.navs[i]
      r == [r0 EXCEPT !.navs = RemoveAt(@, i)]
  IN CASE outcome.kind = "retry" ->
            Log([r0 EXCEPT !.navs[i].phase = "backoff", !.navs[i].due = After(outcome.delay)],
                [what |-> "setTimeout", at |-> now, delay |-> outcome.delay])
       [] outcome.kind = "return" ->
            IF Truthy(outcome.data)
              THEN NavigateFinally(NavigateRender(r, nav.path, nav.pushState,
                                                  nav.isInitial, outcome.data))
              ELSE NavigateFinally(r)
       [] OTHER -> NavigateFinally(ShowErrorState([r EXCEPT !.currentRoute = nav.path],
                                                  outcome.error))

\* navigate resumed when fetchPageData (call i of navs) settles with outcome
NavigateResume(r0, i, outcome) ==
  LET nav == r0.navs[i]
      r == [r0 EXCEPT !.navs = RemoveAt(@, i)]
  IN CASE outcome.kind = "retry" ->
            Log([r0 EXCEPT !.navs[i].phase = "backoff", !.navs[i].due = After(outcome.delay)],
                [what |-> "setTimeout", at |-> now, delay |-> outcome.delay])
       [] outcome.kind = "return" ->
            IF Truthy(outcome.data)
              THEN NavigateFinally(NavigateRender(r, nav.path, nav.pushState,
                                                  nav.isInitial, outcome.data))
              ELSE NavigateFinally(r)
       [] OTHER -> NavigateFinally(ShowErrorState(r, outcome.error))

\* ------------------------------------------------------------ hover preloading
\* SPARouter.preloadPage(path) up to its fetch
PreloadPage(r, path) ==
  IF MapHas(r.preloadCache, path) \/ MapHas(r.cache, path) THEN r
  ELSE [r EXCEPT !.preloads = Append(@, path)]

PreloadSettledMutant(r0, j, resp) ==
  LET path == r0.preloads[j]
      r == [r0 EXCEPT !.preloads = RemoveAt(@, j)]
  IN IF resp.type = "http" /\ resp.body # NotJson
       THEN [r EXCEPT !.preloadCache = MapSet(@, path, resp.body)]
       ELSE r

\* SPARouter.preloadPage resumed with the response
PreloadSettled(r0, j, resp) ==
  LET path == r0.preloads[j]
      r == [r0 EXCEPT !.preloads = RemoveAt(@, j)]
  IN IF resp.type = "http" /\ Ok(resp.status) /\ resp.body # NotJson
       THEN [r EXCEPT !.preloadCache = MapSet(@, path, resp.body)]
       ELSE r

\* ------------------------------------------------------------ IntelligentPreloader
\* an argument not passed
Undefined == [kind |-> "undefined"]

\* the fields of a new IntelligentPreloader; preloadQueue and preloadCache in
\* insertion order; hoverTimeouts holds the timers still pending, by link id;
\* fetches are the preloadPage calls suspended at their fetch, unhandled the hrefs
\* whose preloadPage call has rejected, emitted the details of the pagePreloaded
\* events dispatched on window (size: the length of the data serialised)
NoPreloader ==
  [preloadQueue |-> <<>>, preloadingInProgress |-> {}, preloadCache |-> <<>>,
   hoverTimeouts |-> <<>>, observed |-> {}, visibilityTimers |-> <<>>,
   fetches |-> <<>>, unhandled |-> {}, emitted |-> <<>>]

\* DOMContentLoaded has run: window.preloader exists
HasPreloader == "preloader" \in dom

Value(v) == [kind |-> "return", value |-> v]

\* shouldPreload(href, linkElement)
ShouldPreload(r, href, linkElement) ==
  IF Falsy(href) THEN Value(FALSE)
  ELSE IF Includes(href, "://") /\ ~(Len(href) >= 3 /\ SubSeq(href, 1, 3) = Origin)
    THEN Value(FALSE)
  ELSE IF StartsWith(href, "#") \/ StartsWith(href, "mailto:") \/ StartsWith(href, "tel:")
    THEN Value(FALSE)
  ELSE IF MapHas(r.cache, href) \/ MapHas(r.preloadCache, href) THEN Value(FALSE)
  ELSE IF href \in r.preloader.preloadingInProgress THEN Value(FALSE)
  ELSE IF linkElement = Undefined
    THEN Throw(Error("TypeError", <<"Cannot", "read", "properties", "of", "undefined">>))
  ELSE IF "data-no-preload" \in linkElement.attrs THEN Value(FALSE)
  ELSE IF "download" \in linkElement.attrs THEN Value(FALSE)
  ELSE Value(TRUE)

\* getLinkPriority; closest() is tested on the element itself, a BUTTON is the
\* element that carries data-href
GetLinkPriority(linkElement) ==
  IF linkElement.classes \cap {"nav-link", "navigation", "sidebar"} # {}
    THEN PriorityNavigation
  ELSE IF "data-href" \in linkElement.attrs \/ "btn" \in linkElement.classes
    THEN PriorityButtons
  ELSE PriorityLinks

\* getLinkId of an element without id
GetLinkId(linkElement) == linkElement.href

Task(href, priority, source) == [href |-> href, priority |-> priority, source |-> source]

\* IntelligentPreloader.preloadPage(href, priority, source) up to its first
\* suspension; shouldPreload is called with href alone
PreloaderPreloadPage(r, href, priority, source) ==
  LET should == ShouldPreload(r, href, Undefined) IN
  IF should.kind = "throw"
    THEN [r EXCEPT !.preloader.unhandled = @ \cup {href}]
  ELSE IF ~should.value THEN r
  ELSE IF Cardinality(r.preloader.preloadingInProgress) >= maxConcurrentPreloads
    THEN [r EXCEPT !.preloader.preloadQueue = Append(@, Task(href, priority, source))]
  ELSE [r EXCEPT !.preloader.preloadingInProgress = @ \cup {href},
                 !.preloader.fetches = Append(@, Task(href, priority, source))]

\* the index of the task sortedQueue[0]: the first of those of least priority
NextTask(queue) ==
  CHOOSE i \in DOMAIN queue :
    /\ \A j \in DOMAIN queue : queue[i].priority <= queue[j].priority
    /\ \A j \in 1..(i - 1) : queue[j].priority > queue[i].priority

\* processPreloadQueue
ProcessPreloadQueue(r) ==
  IF r.preloader.preloadQueue = <<>> THEN r
  ELSE IF Cardinality(r.preloader.preloadingInProgress) >= maxConcurrentPreloads THEN r
  ELSE LET i == NextTask(r.preloader.preloadQueue)
           next == r.preloader.preloadQueue[i]
       IN PreloaderPreloadPage([r EXCEPT !.preloader.preloadQueue = RemoveAt(@, i)],
                               next.href, next.priority, next.source)

\* this.preloadCache.set(href, entry): a key already present keeps its place
CacheSet(entries, entry) ==
  IF \E k \in DOMAIN entries : entries[k].href = entry.href
    THEN [k \in DOMAIN entries |-> IF entries[k].href = entry.href THEN entry ELSE entries[k]]
    ELSE Append(entries, entry)

\* IntelligentPreloader.preloadPage resumed with the response
PreloaderSettled(r0, j, resp) ==
  LET task == r0.preloader.fetches[j]
      r == [r0 EXCEPT !.preloader.fetches = RemoveAt(@, j)]
      r1 == IF resp.type = "http" /\ Ok(resp.status) /\ resp.body # NotJson
              THEN [r EXCEPT !.preloadCache = MapSet(@, task.href, resp.body),
                             !.preloader.preloadCache =
                                CacheSet(@, [href |-> task.href, data |-> resp.body,
                                             timestamp |-> now, priority |-> task.priority,
                                             source |-> task.source]),
                             !.preloader.emitted =
                                Append(@, [href |-> task.href, priority |-> task.priority,
                                           source |-> task.source,
                                           size |-> [lengthOf |-> resp.body]])]
              ELSE r
  IN ProcessPreloadQueue([r1 EXCEPT !.preloader.preloadingInProgress = @ \ {task.href}])

\* the place of entry k when the entries are sorted by timestamp (the sort is stable)
Rank(entries, k) ==
  Cardinality({j \in DOMAIN entries :
                 \/ entries[j].timestamp < entries[k].timestamp
                 \/ entries[j].timestamp = entries[k].timestamp /\ j < k})

CleanupCacheMutant(r) ==
  LET entries == r.preloader.preloadCache
      excess == Len(entries) - maxCacheSize
      toRemove == {entries[k].href : k \in {k \in DOMAIN entries : Rank(entries, k) < excess}}
  IN IF Len(entries) <= maxCacheSize THEN r
     ELSE [r EXCEPT !.preloader.preloadCache = SelectSeq(@, LAMBDA e : e.href \notin toRemove)]

\* the callback of setInterval in cleanupCache
CleanupCache(r) ==
  LET entries == r.preloader.preloadCache
      excess == Len(entries) - maxCacheSize
      toRemove == {entries[k].href : k \in {k \in DOMAIN entries : Rank(entries, k) < excess}}
  IN IF Len(entries) <= maxCacheSize THEN r
     ELSE [r EXCEPT !.preloader.preloadCache = SelectSeq(@, LAMBDA e : e.href \notin toRemove),
                    !.preloadCache = [h \in (DOMAIN @) \ toRemove |-> @[h]]]

\* setupHoverPreloading: the mouseover listener
PreloaderOnMouseOver(r, link) ==
  LET should == ShouldPreload(r, link.href, link) IN
  IF should.kind = "throw" \/ ~should.value THEN r
  ELSE [r EXCEPT !.preloader.hoverTimeouts =
          Append(SelectSeq(@, LAMBDA t : t.linkId # GetLinkId(link)),
                 [linkId |-> GetLinkId(link), href |-> link.href,
                  priority |-> GetLinkPriority(link), due |-> After(hoverDelay)])]

\* setupHoverPreloading: the mouseout listener
PreloaderOnMouseOut(r, link) ==
  [r EXCEPT !.preloader.hoverTimeouts = SelectSeq(@, LAMBDA t : t.linkId # GetLinkId(link))]

\* setupVisibilityPreloading: the links observed
Observed(r, links) ==
  {link \in links : ShouldPreload(r, link.href, link) = Value(TRUE)}

\* the IntersectionObserver callback for an entry that intersects
OnIntersect(r, link) ==
  IF ShouldPreload(r, link.href, link) = Value(TRUE)
    THEN [r EXCEPT !.preloader.visibilityTimers =
            Append(@, [href |-> link.href, priority |-> GetLinkPriority(link),
                       due |-> After(VisibilityDelayMs)])]
    ELSE r

\* preloadNow(href)
PreloadNow(r, href) == PreloaderPreloadPage(r, href, 1, "manual")

\* new IntelligentPreloader(window.spaRouter) on DOMContentLoaded
PreloaderInit(r, links) ==
  [r EXCEPT !.preloader = [NoPreloader EXCEPT !.observed = Observed(r, links)]]

\* ------------------------------------------------------------ events
NoEvent == [type |-> "none"]

ClickExcludedMutant(link) ==
  \/ Falsy(link.href)
  \/ StartsWith(link.href, "#")
  \/ StartsWith(link.href, "mailto:")
  \/ StartsWith(link.href, "tel:")
  \/ Includes(link.href, "://")
  \/ link.target = "_blank"
  \/ "external-link" \in link.classes
  \/ "data-no-spa" \in link.attrs

\* the click listener's tests: TRUE when the click is left to the browser
ClickExcluded(link) ==
  \/ Falsy(link.href)
  \/ StartsWith(link.href, "#")
  \/ StartsWith(link.href, "mailto:")
  \/ StartsWith(link.href, "tel:")
  \/ Includes(link.href, "://")
  \/ "download" \in link.attrs
  \/ link.target = "_blank"
  \/ "external-link" \in link.classes
  \/ "data-no-spa" \in link.attrs

\* the document click listener
OnClick(r, link) ==
  IF ClickExcluded(link) THEN r
  ELSE Navigate([r EXCEPT !.defaultPrevented = TRUE], link.href, TRUE, FALSE)

HandlePopStateMutant(r, entry) ==
  LET path == IF entry.state.kind = "state" /\ ~Falsy(entry.state.path)
                THEN entry.state.path ELSE entry.url
  IN IF path = r.currentRoute THEN r
     ELSE Navigate(IF r.isNavigating
                     THEN HideLoadingState([r EXCEPT !.isNavigating = FALSE])
                     ELSE r,
                   path, TRUE, FALSE)

\* handlePopState, the browser having moved to entry
HandlePopState(r, entry) ==
  LET path == IF entry.state.kind = "state" /\ ~Falsy(entry.state.path)
                THEN entry.state.path ELSE entry.url
  IN IF path = r.currentRoute THEN r
     ELSE Navigate(IF r.isNavigating
                     THEN HideLoadingState([r EXCEPT !.isNavigating = FALSE])
                     ELSE r,
                   path, FALSE, FALSE)

\* retryButton.onclick
OnRetry(r) ==
  LET r1 == HideErrorState(r) IN
  IF ~Falsy(r1.lastFailedPath) THEN Navigate(r1, r1.lastFailedPath, TRUE, FALSE) ELSE r1

\* user input is held back while the model's bounds are exhausted
WithinBounds(r) ==
  /\ Len(r.navs) + Len(r.afterNavTimers) <= lim.navs
  /\ Len(r.hist) + Cardinality({i \in 1..Len(r.navs) : r.navs[i].pushState}) <= lim.hist

Idle == pageAlive /\ event = NoEvent

Env == UNCHANGED <<timed, doc, dom, net, lim>>

Dispatch(type, target, r) ==
  /\ WithinBounds(r)
  /\ SetState(r)
  /\ event' = [type |-> type, target |-> target,
               defaultPrevented |-> r.defaultPrevented, calls |-> r.calls]
  /\ UNCHANGED <<now, pageAlive, failBudget>>
  /\ Env

\* a handler without a default action, a continuation or a timer callback runs
Run(r) ==
  /\ SetState(r)
  /\ UNCHANGED <<now, pageAlive, event>>
  /\ Env

\* ------------------------------------------------------------ actions: the user
Click(link) ==
  /\ Idle
  /\ link \in doc
  /\ StartsWith(link.href, "#") => Len(hist) < lim.hist
  /\ Dispatch("click", link, OnClick(R, link))

\* what the browser does with an unprevented click on link
NativeClick(link) ==
  IF \/ "download" \in link.attrs
     \/ link.target = "_blank"
     \/ StartsWith(link.href, "mailto:")
     \/ StartsWith(link.href, "tel:")
    THEN UNCHANGED <<pageAlive, hist, histIdx>>
  ELSE IF StartsWith(link.href, "#")
    THEN /\ hist' = Append(SubSeq(hist, 1, histIdx), [state |-> Null, url |-> hist[histIdx].url])
         /\ histIdx' = histIdx + 1
         /\ UNCHANGED pageAlive
  ELSE /\ pageAlive' = FALSE
       /\ UNCHANGED <<hist, histIdx>>

\* the event's default action, after its handlers
DefaultAction ==
  /\ pageAlive
  /\ event # NoEvent
  /\ event' = NoEvent
  /\ IF event.type = "click" /\ ~event.defaultPrevented
       THEN NativeClick(event.target)
       ELSE UNCHANGED <<pageAlive, hist, histIdx>>
  /\ UNCHANGED <<now, failBudget, isNavigating, currentRoute, cache, preloadCache,
                 lastFailedPath, loadingTimeout, navs, preloads, preloadTimeout,
                 content, title, indicatorShown, overlayShown, errorShown,
                 errorMessage, errorTimers, activeLinks, scrollTop, componentStates,
                 staticComponents, nodes, afterNavTimers, fetchLog, preloader>>
  /\ Env

\* back or forward
PopState(d) ==
  /\ Idle
  /\ histIdx + d \in 1..Len(hist)
  /\ Dispatch("popstate", hist[histIdx + d],
              HandlePopState([R EXCEPT !.histIdx = histIdx + d], hist[histIdx + d]))

RetryClick ==
  /\ Idle
  /\ errorShown
  /\ "spa-error-retry" \in dom
  /\ Dispatch("retry", lastFailedPath, OnRetry(R))

DismissClick ==
  /\ Idle
  /\ errorShown
  /\ "spa-error-dismiss" \in dom
  /\ Run(HideErrorState(R))
  /\ UNCHANGED failBudget

OnMouseOverMutant(r, link) ==
  IF Falsy(link.href) \/ MapHas(r.preloadCache, link.href) \/ MapHas(r.cache, link.href)
    THEN r
    ELSE [r EXCEPT !.preloadTimeout = <<[href |-> link.href, link |-> link,
                                         due |-> After(0)]>>]

\* the mouseover listener of setupPreloading
OnMouseOver(r, link) ==
  IF Falsy(link.href) \/ MapHas(r.preloadCache, link.href) \/ MapHas(r.cache, link.href)
    THEN r
    ELSE [r EXCEPT !.preloadTimeout = <<[href |-> link.href, link |-> link,
                                         due |-> After(HoverDelayMs)]>>]

\* the pointer enters link, having left any other: both mouseover listeners run
MouseOver(link) ==
  /\ Idle
  /\ link \in doc
  /\ Len(preloads) < lim.preloads
  /\ \A k \in DOMAIN preloader.hoverTimeouts :
       preloader.hoverTimeouts[k].linkId = GetLinkId(link)
  /\ Run(IF HasPreloader THEN PreloaderOnMouseOver(OnMouseOver(R, link), link)
                         ELSE OnMouseOver(R, link))
  /\ UNCHANGED failBudget

\* the hrefs of the links with a hover timer pending: the pointer is on such a link
Hovered ==
  {preloadTimeout[k].href : k \in DOMAIN preloadTimeout}
  \cup {preloader.hoverTimeouts[k].href : k \in DOMAIN preloader.hoverTimeouts}

\* the pointer leaves the link it is on: both mouseout listeners run
MouseOut ==
  /\ Idle
  /\ \E link \in doc :
       /\ link.href \in Hovered
       /\ Run(IF HasPreloader
                THEN PreloaderOnMouseOut([R EXCEPT !.preloadTimeout = <<>>], link)
                ELSE [R EXCEPT !.preloadTimeout = <<>>])
  /\ UNCHANGED failBudget

ScrollSidebar(offset) ==
  /\ Idle
  /\ offset # scrollTop
  /\ Run([R EXCEPT !.scrollTop = offset])
  /\ UNCHANGED failBudget

\* ------------------------------------------------------------ actions: calls of window.componentPersistence
\* a method called from a script: the state it leaves and the exception it ends
\* with, reported in event until the caller goes on
PersistenceCall(method, r) ==
  /\ SetState(r)
  /\ event' = [type |-> "call", target |-> method, exc |-> r.exc]
  /\ UNCHANGED <<now, pageAlive, failBudget>>
  /\ Env

BeforeNavigationCall ==
  /\ Idle
  /\ "componentPersistence" \in dom
  /\ PersistenceCall("beforeNavigation", BeforeNavigation(R))

AfterNavigationCall ==
  /\ Idle
  /\ "componentPersistence" \in dom
  /\ PersistenceCall("afterNavigation", AfterNavigation(R))

\* the clock readings of one captureComponentState: Date.now() the same all
\* through, or one millisecond later from the k-th descendant on
ClockReadings(el) ==
  {[i \in DOMAIN el.children |-> IF i < k THEN now ELSE now + 1] :
     k \in 1..(Len(el.children) + 1)}

\* restoreComponentState(element, captureComponentState(element)) for the
\* element of a registered component
CaptureRestore(k, times) ==
  /\ Idle
  /\ "componentPersistence" \in dom
  /\ k \in DOMAIN staticComponents
  /\ times \in ClockReadings(ElementOf(R, staticComponents[k].node))
  /\ PersistenceCall("restoreComponentState",
       LET node == staticComponents[k].node
           el == ElementOf(R, node)
           out == RestoreComponentState(el, CaptureComponentState(el, times))
       IN [StoreElement(R, node, out.element) EXCEPT !.exc = out.exc])

\* ------------------------------------------------------------ actions: timers
HoverTimer ==
  /\ Idle
  /\ preloadTimeout # <<>>
  /\ TimerDue(preloadTimeout[1].due)
  /\ Run(PreloadPage([R EXCEPT !.preloadTimeout = <<>>], preloadTimeout[1].href))
  /\ UNCHANGED failBudget

\* a hover timer of the preloader fires, after the router's of the same hover
PreloaderHoverTimer ==
  /\ Idle
  /\ HasPreloader
  /\ \E k \in DOMAIN preloader.hoverTimeouts :
       LET t == preloader.hoverTimeouts[k] IN
       /\ TimerDue(t.due)
       /\ \A i \in DOMAIN preloadTimeout : preloadTimeout[i].href # t.href
       /\ Run(PreloaderPreloadPage([R EXCEPT !.preloader.hoverTimeouts = RemoveAt(@, k)],
                                   t.href, t.priority, "hover"))
  /\ UNCHANGED failBudget

\* an observed link comes into view
Intersect(link) ==
  /\ Idle
  /\ HasPreloader
  /\ link \in preloader.observed
  /\ \A k \in DOMAIN preloader.visibilityTimers :
       preloader.visibilityTimers[k].href # link.href
  /\ Run(OnIntersect(R, link))
  /\ UNCHANGED failBudget

VisibilityTimer ==
  /\ Idle
  /\ HasPreloader
  /\ preloader.visibilityTimers # <<>>
  /\ TimerDue(preloader.visibilityTimers[1].due)
  /\ Run(PreloaderPreloadPage([R EXCEPT !.preloader.visibilityTimers = Tail(@)],
                              preloader.visibilityTimers[1].href,
                              preloader.visibilityTimers[1].priority, "visibility"))
  /\ UNCHANGED failBudget

\* the cleanup interval elapses
CleanupTick ==
  /\ Idle
  /\ HasPreloader
  /\ Run(CleanupCache(R))
  /\ UNCHANGED failBudget

OverlayTimer ==
  /\ Idle
  /\ loadingTimeout # <<>>
  /\ TimerDue(loadingTimeout[1])
  /\ Run([R EXCEPT !.loadingTimeout = <<>>,
                   !.overlayShown = IF "spa-loading-overlay" \in dom THEN TRUE ELSE @])
  /\ UNCHANGED failBudget

ErrorTimer ==
  /\ Idle
  /\ errorTimers # <<>>
  /\ TimerDue(errorTimers[1])
  /\ Run(HideErrorState([R EXCEPT !.errorTimers = Tail(@)]))
  /\ UNCHANGED failBudget

AfterNavTimer ==
  /\ Idle
  /\ afterNavTimers # <<>>
  /\ TimerDue(afterNavTimers[1])
  /\ Run([AfterNavigation([R EXCEPT !.afterNavTimers = Tail(@)]) EXCEPT !.exc = Null])
  /\ UNCHANGED failBudget

\* the backoff of call i is over: fetchPageData(path, retryCount + 1)
NavBackoffElapsed(i) ==
  /\ Idle
  /\ i \in 1..Len(navs)
  /\ navs[i].phase = "backoff"
  /\ TimerDue(navs[i].due)
  /\ Run(IssueFetch([R EXCEPT !.navs = RemoveAt(@, i)], navs[i].path, navs[i].pushState,
                    navs[i].isInitial, navs[i].retryCount + 1))
  /\ UNCHANGED failBudget

\* the 10 s timer of call i fires: controller.abort()
NavAbort(i) ==
  /\ Idle
  /\ i \in 1..Len(navs)
  /\ navs[i].phase = "fetch"
  /\ TimerDue(navs[i].due)
  /\ failBudget > 0
  /\ failBudget' = failBudget - 1
  /\ Run(NavigateResume(Log(R, [what |-> "abort", at |-> now]), i,
                        FetchSettled(navs[i].retryCount, Reject(AbortError))))

\* ------------------------------------------------------------ actions: the network
NavResponse(i, resp) ==
  /\ Idle
  /\ i \in 1..Len(navs)
  /\ navs[i].phase = "fetch"
  /\ resp \in ServerResponses(navs[i].path)
  /\ Failed(resp) => failBudget > 0
  /\ failBudget' = IF Failed(resp) THEN failBudget - 1 ELSE failBudget
  /\ Run(NavigateResume(Log(R, [what |-> "response", at |-> now, resp |-> resp]), i,
                        FetchSettled(navs[i].retryCount, resp)))

PreloadResponse(j, resp) ==
  /\ Idle
  /\ j \in 1..Len(preloads)
  /\ resp \in ServerResponses(preloads[j])
  /\ Run(PreloadSettled(IF Failed(resp)
                          THEN Log(R, [what |-> "preload", at |-> now,
                                       path |-> preloads[j], resp |-> resp])
                          ELSE R, j, resp))
  /\ UNCHANGED failBudget

PreloaderResponse(j, resp) ==
  /\ Idle
  /\ j \in 1..Len(preloader.fetches)
  /\ resp \in ServerResponses(preloader.fetches[j].href)
  /\ Run(PreloaderSettled(R, j, resp))
  /\ UNCHANGED failBudget

\* a script of the page calls window.preloader.preloadNow(href)
PreloadNowCall(href) ==
  /\ Idle
  /\ HasPreloader
  /\ Run(PreloadNow(R, href))
  /\ UNCHANGED failBudget

\* ------------------------------------------------------------ the clock
PendingTimers ==
  {loadingTimeout[k] : k \in 1..Len(loadingTimeout)}
  \cup {navs[i].due : i \in 1..Len(navs)}
  \cup {errorTimers[k] : k \in 1..Len(errorTimers)}
  \cup {afterNavTimers[k] : k \in 1..Len(afterNavTimers)}
  \cup {preloadTimeout[k].due : k \in 1..Len(preloadTimeout)}
  \cup {preloader.hoverTimeouts[k].due : k \in DOMAIN preloader.hoverTimeouts}
  \cup {preloader.visibilityTimers[k].due : k \in DOMAIN preloader.visibilityTimers}

\* time passes when no timer is due
Tick ==
  /\ Idle
  /\ timed
  /\ now + TickMs <= MaxTime
  /\ \A due \in PendingTimers : due > now
  /\ now' = now + TickMs
  /\ UNCHANGED <<pageAlive, failBudget, event, isNavigating, currentRoute, cache,
                 preloadCache, lastFailedPath, loadingTimeout, navs, preloads,
                 preloadTimeout, content, title, hist, histIdx, indicatorShown,
                 overlayShown, errorShown, errorMessage, errorTimers, activeLinks,
                 scrollTop, componentStates, staticComponents, nodes, afterNavTimers,
                 fetchLog, preloader>>
  /\ Env

\* ------------------------------------------------------------ specifications
\* the document loaded at loc with the regions given in its content, before any
\* script has run
Loaded(loc, regions) ==
  [isNavigating |-> FALSE, currentRoute |-> NoPath, cache |-> EmptyMap,
   preloadCache |-> EmptyMap, lastFailedPath |-> NoPath, loadingTimeout |-> <<>>,
   navs |-> <<>>, preloads |-> <<>>, preloadTimeout |-> <<>>,
   content |-> [route |-> loc, ver |-> 0], title |-> TitleOf(loc),
   hist |-> <<[state |-> Null, url |-> loc]>>, histIdx |-> 1,
   indicatorShown |-> FALSE, overlayShown |-> FALSE, errorShown |-> FALSE,
   errorMessage |-> <<>>, errorTimers |-> <<>>, activeLinks |-> {}, scrollTop |-> 0,
   componentStates |-> EmptyMap, staticComponents |-> <<>>, nodes |-> regions,
   afterNavTimers |-> <<>>, fetchLog |-> <<>>, preloader |-> NoPreloader, calls |-> <<>>,
   defaultPrevented |-> FALSE, exc |-> Null]

\* the fields before the router's constructor calls init(): window.componentPersistence
\* constructed where its script is part of the page
Constructed(loc) ==
  LET loaded == Loaded(loc, <<>>) IN
  IF "componentPersistence" \in dom THEN ComponentPersistenceInit(loaded) ELSE loaded

\* init(): without #spa-content it returns before it registers a listener;
\* else this.navigate(window.location.pathname, false, true)
RouterInit(loc) ==
  LET constructed == Constructed(loc) IN
  IF "spa-content" \notin dom THEN constructed
  ELSE Navigate(constructed, loc, FALSE, TRUE)

InitState(state) ==
  \E r \in {state} :
    /\ isNavigating = r.isNavigating
    /\ currentRoute = r.currentRoute
    /\ cache = r.cache
    /\ preloadCache = r.preloadCache
    /\ lastFailedPath = r.lastFailedPath
    /\ loadingTimeout = r.loadingTimeout
    /\ navs = r.navs
    /\ preloads = r.preloads
    /\ preloadTimeout = r.preloadTimeout
    /\ content = r.content
    /\ title = r.title
    /\ hist = r.hist
    /\ histIdx = r.histIdx
    /\ indicatorShown = r.indicatorShown
    /\ overlayShown = r.overlayShown
    /\ errorShown = r.errorShown
    /\ errorMessage = r.errorMessage
    /\ errorTimers = r.errorTimers
    /\ activeLinks = r.activeLinks
    /\ scrollTop = r.scrollTop
    /\ componentStates = r.componentStates
    /\ staticComponents = r.staticComponents
    /\ nodes = r.nodes
    /\ afterNavTimers = r.afterNavTimers
    /\ fetchLog = r.fetchLog
    /\ preloader = r.preloader

\* the state after construction in the environment given
InitWith(t, links, n, l, budget) ==
  /\ timed = t
  /\ now = 0
  /\ doc = links
  /\ dom = AllHooks
  /\ net = n
  /\ lim = l
  /\ pageAlive = TRUE
  /\ failBudget = budget
  /\ event = NoEvent
  /\ \E loc \in Paths : InitState(RouterInit(loc))

\* the state after DOMContentLoaded in the environment given: the router
\* constructed, its initial load pending, and the preloader constructed
InitWithPreloader(t, links, n, l, budget) ==
  /\ timed = t
  /\ now = 0
  /\ doc = links
  /\ dom = AllHooks \cup {"preloader"}
  /\ net = n
  /\ lim = l
  /\ pageAlive = TRUE
  /\ failBudget = budget
  /\ event = NoEvent
  /\ \E loc \in Paths : InitState(PreloaderInit(RouterInit(loc), links))

\* navigation: clicks on the navigation links, back and forward, failures and the
\* error banner, the sidebar scrolled
Init ==
  InitWith(FALSE, {NavLinkA, NavLinkB},
           [versions |-> {1}, bodies |-> {"fragment"},
            failures |-> {Http(404, Null), Http(500, Null)}],
           [navs |-> MaxNavs, hist |-> MaxHist, preloads |-> 0], MaxFailures)

Next ==
  \/ \E link \in AllLinks : Click(link)
  \/ DefaultAction
  \/ \E d \in {-1, 1} : PopState(d)
  \/ RetryClick
  \/ DismissClick
  \/ \E offset \in ScrollOffsets : ScrollSidebar(offset)
  \/ OverlayTimer
  \/ ErrorTimer
  \/ AfterNavTimer
  \/ \E i \in DOMAIN navs : NavBackoffElapsed(i)
  \/ \E i \in DOMAIN navs : \E resp \in ServerResponses(navs[i].path) : NavResponse(i, resp)

Spec == Init /\ [][Next]_vars

\* the two caches: navigation and hover preloading of pages the server renders
\* differently over time, no request failing
InitCache ==
  InitWith(FALSE, {NavLinkA, NavLinkB},
           [versions |-> {1, 2}, bodies |-> {"fragment"}, failures |-> {}],
           [navs |-> MaxNavs, hist |-> MaxHist, preloads |-> MaxPreloads], 0)

NextCache ==
  \/ \E link \in AllLinks : Click(link)
  \/ DefaultAction
  \/ \E d \in {-1, 1} : PopState(d)
  \/ \E link \in AllLinks : MouseOver(link)
  \/ MouseOut
  \/ HoverTimer
  \/ OverlayTimer
  \/ AfterNavTimer
  \/ \E i \in DOMAIN navs : \E resp \in ServerResponses(navs[i].path) : NavResponse(i, resp)
  \/ \E j \in DOMAIN preloads : \E resp \in ServerResponses(preloads[j]) : PreloadResponse(j, resp)

SpecCache == InitCache /\ [][NextCache]_vars

\* clicks, retries and hover preloads while navigations are pending; no back or
\* forward, the sidebar left alone
InitFrame ==
  InitWith(FALSE, {NavLinkA, NavLinkB},
           [versions |-> {1}, bodies |-> {"fragment"},
            failures |-> {Http(404, Null), Http(500, Null)}],
           [navs |-> MaxNavs, hist |-> MaxHist, preloads |-> MaxPreloads], MaxFailures)

NextFrame ==
  \/ \E link \in AllLinks : Click(link)
  \/ DefaultAction
  \/ RetryClick
  \/ DismissClick
  \/ \E link \in AllLinks : MouseOver(link)
  \/ MouseOut
  \/ HoverTimer
  \/ OverlayTimer
  \/ ErrorTimer
  \/ AfterNavTimer
  \/ \E i \in DOMAIN navs : NavBackoffElapsed(i)
  \/ \E i \in DOMAIN navs : \E resp \in ServerResponses(navs[i].path) : NavResponse(i, resp)
  \/ \E j \in DOMAIN preloads : \E resp \in ServerResponses(preloads[j]) : PreloadResponse(j, resp)

SpecFrame == InitFrame /\ [][NextFrame]_vars

\* every kind of link clicked, every request answered with the page
InitClick ==
  InitWith(FALSE, AllLinks,
           [versions |-> {1}, bodies |-> {"fragment"}, failures |-> {}],
           [navs |-> MaxNavs, hist |-> MaxHist, preloads |-> 0], 0)

NextClick ==
  \/ \E link \in AllLinks : Click(link)
  \/ DefaultAction
  \/ \E d \in {-1, 1} : PopState(d)
  \/ OverlayTimer
  \/ AfterNavTimer
  \/ \E i \in DOMAIN navs : \E resp \in ServerResponses(navs[i].path) : NavResponse(i, resp)

SpecClick == InitClick /\ [][NextClick]_vars

\* the initial load by the clock, the user idle: one navigate call in fetchPageData
InitTimed ==
  InitWith(TRUE, {},
           [versions |-> {1}, bodies |-> AllBodies, failures |-> AllFailures],
           [navs |-> MaxNavs, hist |-> MaxHist, preloads |-> 0], maxRetries + 1)

NextTimed ==
  \/ Tick
  \/ OverlayTimer
  \/ ErrorTimer
  \/ AfterNavTimer
  \/ \E i \in DOMAIN navs : NavBackoffElapsed(i)
  \/ \E i \in DOMAIN navs : NavAbort(i)
  \/ \E i \in DOMAIN navs : \E resp \in ServerResponses(navs[i].path) : NavResponse(i, resp)

SpecTimed == InitTimed /\ [][NextTimed]_vars

\* the initial load by the clock, every request answered in the end (or aborted
\* by its timer), the timers of the call firing when they are due and time
\* passing; a request is retried only while the clock of the model can reach the retry
InitLive ==
  InitWith(TRUE, {},
           [versions |-> {1}, bodies |-> {"fragment"},
            failures |-> {Http(404, Null), Http(500, Null)}],
           [navs |-> MaxNavs, hist |-> MaxHist, preloads |-> 0], maxRetries + 1)

NextLive ==
  \/ Tick
  \/ OverlayTimer
  \/ ErrorTimer
  \/ AfterNavTimer
  \/ \E i \in DOMAIN navs : NavBackoffElapsed(i)
  \/ \E i \in DOMAIN navs : NavAbort(i)
  \/ \E i \in DOMAIN navs : \E resp \in ServerResponses(navs[i].path) :
       /\ FetchSettled(navs[i].retryCount, resp).kind = "retry"
            => now + RetryDelay(navs[i].retryCount) <= MaxTime
       /\ NavResponse(i, resp)

SpecLive ==
  /\ InitLive
  /\ [][NextLive]_vars
  /\ WF_vars(Tick)
  /\ WF_vars(OverlayTimer)
  /\ WF_vars(\E i \in DOMAIN navs : NavBackoffElapsed(i))
  /\ WF_vars(\E i \in DOMAIN navs : NavAbort(i))
  /\ WF_vars(\E i \in DOMAIN navs : \E resp \in ServerResponses(navs[i].path) :
               /\ FetchSettled(navs[i].retryCount, resp).kind = "retry"
                    => now + RetryDelay(navs[i].retryCount) <= MaxTime
               /\ NavResponse(i, resp))

\* the error banner by the clock: clicks on a navigation link whose requests are
\* answered 404 or time out, the banner dismissed, retried or left to its timer
InitBanner ==
  InitWith(TRUE, {NavLinkA},
           [versions |-> {}, bodies |-> {}, failures |-> {Http(404, Null)}],
           [navs |-> MaxNavs, hist |-> MaxHist, preloads |-> 0], MaxFailures + 1)

NextBanner ==
  \/ Tick
  \/ \E link \in AllLinks : Click(link)
  \/ DefaultAction
  \/ RetryClick
  \/ DismissClick
  \/ OverlayTimer
  \/ ErrorTimer
  \/ \E i \in DOMAIN navs : NavAbort(i)
  \/ \E i \in DOMAIN navs : \E resp \in ServerResponses(navs[i].path) : NavResponse(i, resp)

SpecBanner == InitBanner /\ [][NextBanner]_vars

\* preloading: the pointer over the links of the page, links coming into view,
\* the router's and the preloader's timers firing at any moment, preload requests
\* answered with the page or 404
InitPreload ==
  InitWithPreloader(FALSE, {NavLinkA, MailLink, NoPreloadLink},
                    [versions |-> {1}, bodies |-> {"fragment"},
                     failures |-> {Http(404, Null)}],
                    [navs |-> MaxNavs, hist |-> MaxHist,
                     preloads |-> maxConcurrentPreloads + 1], 0)

NextPreload ==
  \/ \E link \in AllLinks \cup {NoPreloadLink} : MouseOver(link)
  \/ MouseOut
  \/ HoverTimer
  \/ PreloaderHoverTimer
  \/ \E link \in AllLinks : Intersect(link)
  \/ VisibilityTimer
  \/ OverlayTimer
  \/ AfterNavTimer
  \/ \E i \in DOMAIN navs : \E resp \in ServerResponses(navs[i].path) : NavResponse(i, resp)
  \/ \E j \in DOMAIN preloads : \E resp \in ServerResponses(preloads[j]) : PreloadResponse(j, resp)

SpecPreload == InitPreload /\ [][NextPreload]_vars

\* hover preloading by the clock: the pointer entering and leaving the navigation
\* links, before and after the hover delay
InitHover ==
  InitWithPreloader(TRUE, {NavLinkA, NavLinkB},
                    [versions |-> {1}, bodies |-> {"fragment"}, failures |-> {}],
                    [navs |-> MaxNavs, hist |-> MaxHist, preloads |-> MaxPreloads], 0)

NextHover ==
  \/ Tick
  \/ \E link \in AllLinks : MouseOver(link)
  \/ MouseOut
  \/ HoverTimer
  \/ PreloaderHoverTimer
  \/ OverlayTimer
  \/ AfterNavTimer
  \/ \E i \in DOMAIN navs : \E resp \in ServerResponses(navs[i].path) : NavResponse(i, resp)
  \/ \E j \in DOMAIN preloads : \E resp \in ServerResponses(preloads[j]) : PreloadResponse(j, resp)

SpecHover == InitHover /\ [][NextHover]_vars

\* the preloader's queue: tasks of every priority waiting in every order while
\* one or two preloads of the preloader are in flight; a response frees a slot
InitQueue ==
  LET hrefs == {<<"/b">>, <<"/c">>, <<"/d">>}
      priorities == {PriorityNavigation, PriorityButtons, PriorityLinks}
      queuedTasks == {Task(h, p, "hover") : h \in hrefs, p \in priorities}
      queues == {q \in UNION {[1..n -> queuedTasks] : n \in 0..MaxQueue} :
                   \A i, j \in DOMAIN q : q[i].href = q[j].href => i = j}
      inFlight == {<<Task(<<"/a">>, PriorityNavigation, "hover")>>,
                   <<Task(<<"/a">>, PriorityNavigation, "hover"),
                     Task(<<"/e">>, PriorityLinks, "visibility")>>}
  IN
  /\ timed = FALSE
  /\ now = 0
  /\ doc = {NavLinkA, ButtonLink, PlainLink}
  /\ dom = AllHooks \cup {"preloader"}
  /\ net = [versions |-> {1}, bodies |-> {"fragment"}, failures |-> {Http(404, Null)}]
  /\ lim = [navs |-> MaxNavs, hist |-> MaxHist, preloads |-> MaxPreloads]
  /\ pageAlive = TRUE
  /\ failBudget = 0
  /\ event = NoEvent
  /\ \E loc \in Paths, queue \in queues, tasks \in inFlight :
       InitState([PreloaderInit(RouterInit(loc), doc) EXCEPT
                    !.preloader.preloadQueue = queue,
                    !.preloader.fetches = tasks,
                    !.preloader.preloadingInProgress =
                       {tasks[k].href : k \in DOMAIN tasks}])

NextQueue ==
  \/ \E link \in {NavLinkA, ButtonLink, PlainLink} : MouseOver(link)
  \/ MouseOut
  \/ HoverTimer
  \/ PreloaderHoverTimer
  \/ \E j \in DOMAIN preloads : \E resp \in ServerResponses(preloads[j]) : PreloadResponse(j, resp)
  \/ \E j \in DOMAIN preloader.fetches :
       \E resp \in ServerResponses(preloader.fetches[j].href) : PreloaderResponse(j, resp)
  \/ \E href \in {<<"/b">>, <<"/d">>, <<"mailto:", "ops@panel.example">>} : PreloadNowCall(href)

SpecQueue == InitQueue /\ [][NextQueue]_vars

\* the same, every request answered in the end and every timer set firing: a
\* pending fetch settles and a due setTimeout callback runs
SpecQueueLive ==
  /\ InitQueue
  /\ [][NextQueue]_vars
  /\ WF_vars(\E j \in DOMAIN preloader.fetches :
               \E resp \in ServerResponses(preloader.fetches[j].href) : PreloaderResponse(j, resp))
  /\ WF_vars(\E j \in DOMAIN preloads :
               \E resp \in ServerResponses(preloads[j]) : PreloadResponse(j, resp))
  /\ WF_vars(PreloaderHoverTimer)
  /\ WF_vars(HoverTimer)

\* preloads that fail, by the clock: the pointer on the link to /b of the page
\* /a, the router's preload requests answered with the page, 404 or a network
\* error, a preload of the preloader in flight or not, clicks on the link
InitPreloadFail ==
  /\ timed = TRUE
  /\ now = 0
  /\ doc = {NavLinkB}
  /\ dom = AllHooks \cup {"preloader"}
  /\ net = [versions |-> {1}, bodies |-> {"fragment"},
            failures |-> {Http(404, Null),
                          Reject(Error("TypeError", <<"Failed", "to", "fetch">>))}]
  /\ lim = [navs |-> MaxNavs, hist |-> MaxHist, preloads |-> MaxPreloads]
  /\ pageAlive = TRUE
  /\ failBudget = 0
  /\ event = NoEvent
  /\ \E tasks \in {<<>>, <<Task(<<"/b">>, PriorityNavigation, "hover")>>} :
       InitState([PreloaderInit(RouterInit(<<"/a">>), doc) EXCEPT
                    !.preloader.fetches = tasks,
                    !.preloader.preloadingInProgress =
                       {tasks[k].href : k \in DOMAIN tasks}])

NextPreloadFail ==
  \/ (now < MaxFailTime /\ Tick)
  \/ \E link \in doc : MouseOver(link)
  \/ HoverTimer
  \/ PreloaderHoverTimer
  \/ \E link \in doc : Click(link)
  \/ DefaultAction
  \/ OverlayTimer
  \/ AfterNavTimer
  \/ \E i \in DOMAIN navs :
       \E resp \in ServerResponses(navs[i].path) : NavResponse(i, resp)
  \/ \E j \in DOMAIN preloads :
       \E resp \in ServerResponses(preloads[j]) :
         /\ Failed(resp) =>
              Len(SelectSeq(fetchLog, LAMBDA e : e.what = "preload" /\ Failed(e.resp)))
                < MaxFailures
         /\ PreloadResponse(j, resp)
  \/ \E j \in DOMAIN preloader.fetches :
       \E resp \in ServerResponses(preloader.fetches[j].href) :
         PreloaderResponse(j, resp)

SpecPreloadFail == InitPreloadFail /\ [][NextPreloadFail]_vars

\* eviction: the preloader's cache holding up to MaxEntries pages when the cleanup
\* interval elapses, the pages stored at increasing times, at decreasing times
\* (every page stored again, last first), in the same millisecond, or in no order;
\* the router's speculative cache holds the same pages and possibly one of its own
InitEvict ==
  LET stamp(pattern, n, k) ==
        CASE pattern = "increasing" -> 1000 * k
          [] pattern = "decreasing" -> 1000 * (n + 1 - k)
          [] pattern = "equal" -> 1000
          [] OTHER -> 1000 * ((7 * k) % 5)
      page(k) == <<"/p", ToString(k)>>
      cacheOf(pattern, n) ==
        [k \in 1..n |-> [href |-> page(k), data |-> Fragment(page(k), 1),
                          timestamp |-> stamp(pattern, n, k),
                          priority |-> PriorityLinks, source |-> "hover"]]
      routerCacheOf(n, own) ==
        [h \in {page(k) : k \in 1..n} \cup own |-> Fragment(h, 1)]
  IN
  /\ timed = FALSE
  /\ now = 0
  /\ doc = {NavLinkA, NavLinkB}
  /\ dom = AllHooks \cup {"preloader"}
  /\ net = [versions |-> {1}, bodies |-> {"fragment"}, failures |-> {}]
  /\ lim = [navs |-> MaxNavs, hist |-> MaxHist, preloads |-> MaxPreloads]
  /\ pageAlive = TRUE
  /\ failBudget = 0
  /\ event = NoEvent
  /\ \E loc \in Paths, pattern \in {"increasing", "decreasing", "equal", "mixed"},
        n \in 0..MaxEntries, own \in {{}, {<<"/b">>}} :
       InitState([PreloaderInit(RouterInit(loc), doc) EXCEPT
                    !.preloader.preloadCache = cacheOf(pattern, n),
                    !.preloadCache = routerCacheOf(n, own)])

NextEvict ==
  \/ CleanupTick
  \/ OverlayTimer
  \/ \E i \in DOMAIN navs : \E resp \in ServerResponses(navs[i].path) : NavResponse(i, resp)

SpecEvict == InitEvict /\ [][NextEvict]_vars

\* documents that lack one of the elements the router looks up (with the content
\* container the router registers its listeners; without it init() leaves the
\* page to the browser), the second link of the chrome a navigation link or none
InitHooks ==
  /\ timed = FALSE
  /\ now = 0
  /\ doc \in {{NavLinkA, NavLinkB}, {NavLinkA, ButtonLink}}
  /\ dom \in {AllHooks} \cup
             {AllHooks \ {h} : h \in AllHooks \ {"spa-content", "componentPersistence"}}
  /\ net = [versions |-> {1}, bodies |-> {"fragment"}, failures |-> {Http(404, Null)}]
  /\ lim = [navs |-> MaxNavs, hist |-> MaxHist, preloads |-> 0]
  /\ pageAlive = TRUE
  /\ failBudget = 1
  /\ event = NoEvent
  /\ \E loc \in Paths : InitState(RouterInit(loc))

NextHooks ==
  \/ \E link \in AllLinks : Click(link)
  \/ DefaultAction
  \/ RetryClick
  \/ DismissClick
  \/ OverlayTimer
  \/ ErrorTimer
  \/ AfterNavTimer
  \/ \E i \in DOMAIN navs : \E resp \in ServerResponses(navs[i].path) : NavResponse(i, resp)

SpecHooks == InitHooks /\ [][NextHooks]_vars

\* the page at /a with a persistent region in its content: a region with an id or
\* without, holding up to MaxDescendants active links, forms and toggles, with
\* ids of their own or without
InitPersist ==
  LET link(id, classes) == Element("a", id, classes, <<>>)
      form(id, value) ==
        [Element("form", id, <<>>, <<>>) EXCEPT !.fields = <<Pair("q", value)>>]
      toggle(id, class, style) ==
        [Element("div", id, <<class>>, <<Pair(<<"data-", "toggle">>, "menu")>>)
           EXCEPT !.style = style]
      descendants ==
        {link("", <<"tab", "active", "wide">>), link("", <<"tab", "active">>),
         link("", <<"active", "dark:text-white">>), link("home", <<"active">>),
         form("", "x"), form("", "y"), form("search", "z"),
         toggle("", "collapsed", ""), toggle("", "expanded", "display: none"),
         toggle("nav-toggle", "collapsed", "")}
      children ==
        UNION {[1..n -> descendants] : n \in 0..MaxDescendants}
      region(id, kids) ==
        [Element("div", id, <<>>, <<Pair(<<"data-", "persist">>, "true")>>)
           EXCEPT !.children = kids, !.scrollTop = 120]
  IN
  /\ timed = FALSE
  /\ now = 0
  /\ doc = {NavLinkA, NavLinkB}
  /\ dom = AllHooks
  /\ net = [versions |-> {1}, bodies |-> {"fragment"}, failures |-> {}]
  /\ lim = [navs |-> 1, hist |-> 2, preloads |-> 0]
  /\ pageAlive = TRUE
  /\ failBudget = 0
  /\ event = NoEvent
  /\ \E id \in {"", "panel"}, kids \in children :
       \E loaded \in {Loaded(<<"/a">>, <<region(id, kids)>>)} :
         \E constructed \in {ComponentPersistenceInit(loaded)} :
           InitState(Navigate(constructed, <<"/a">>, FALSE, TRUE))

NextPersist ==
  \/ \E link \in AllLinks : Click(link)
  \/ DefaultAction
  \/ OverlayTimer
  \/ AfterNavTimer
  \/ \E i \in DOMAIN navs : \E resp \in ServerResponses(navs[i].path) : NavResponse(i, resp)
  \/ BeforeNavigationCall
  \/ AfterNavigationCall
  \/ \E k \in DOMAIN staticComponents :
       \E times \in ClockReadings(ElementOf(R, staticComponents[k].node)) :
         CaptureRestore(k, times)

SpecPersist == InitPersist /\ [][NextPersist]_vars

\* the page settled at loc, its initial navigation rendered and restored, and
\* the sidebar scrolled by the user to some offset; from there navigations by
\* click and by back and forward, the sidebar left alone
InitRoundTrip ==
  /\ timed = FALSE
  /\ now = 0
  /\ doc = {NavLinkA, NavLinkB}
  /\ dom = AllHooks
  /\ net = [versions |-> {1}, bodies |-> {"fragment"}, failures |-> {}]
  /\ lim = [navs |-> MaxNavs, hist |-> MaxHist, preloads |-> 0]
  /\ pageAlive = TRUE
  /\ failBudget = 0
  /\ event = NoEvent
  /\ \E loc \in Paths, offset \in ScrollOffsets :
       \E started \in {RouterInit(loc)} :
         \E rendered \in {NavigateResume(started, 1,
                              FetchSettled(0, Http(200, Fragment(loc, 1))))} :
           \E restored \in {AfterNavigation([rendered EXCEPT !.afterNavTimers = <<>>])} :
             InitState([restored EXCEPT !.scrollTop = offset, !.exc = Null])

NextRoundTrip ==
  \/ \E link \in AllLinks : Click(link)
  \/ DefaultAction
  \/ \E d \in {-1, 1} : PopState(d)
  \/ OverlayTimer
  \/ AfterNavTimer
  \/ \E i \in DOMAIN navs : \E resp \in ServerResponses(navs[i].path) : NavResponse(i, resp)

SpecRoundTrip == InitRoundTrip /\ [][NextRoundTrip]_vars

\* one page linked under two spellings of its path, /a and /a/, back and forward;
\* the server renders it differently over time, no request failing
InitSlash ==
  InitWith(FALSE, {NavLinkA, NavLinkB, SlashLinkA},
           [versions |-> {1, 2}, bodies |-> {"fragment"}, failures |-> {}],
           [navs |-> MaxNavs, hist |-> MaxHist, preloads |-> 0], 0)

NextSlash ==
  \/ \E link \in {NavLinkA, NavLinkB, SlashLinkA} : Click(link)
  \/ DefaultAction
  \/ \E d \in {-1, 1} : PopState(d)
  \/ OverlayTimer
  \/ AfterNavTimer
  \/ \E i \in DOMAIN navs : \E resp \in ServerResponses(navs[i].path) : NavResponse(i, resp)

SpecSlash == InitSlash /\ [][NextSlash]_vars

\* navigations that fail: requests refused or answered 5xx until the retries are
\* used up, with hover preloads; the banner left to stand
InitFail ==
  InitWith(FALSE, {NavLinkA, NavLinkB},
           [versions |-> {1}, bodies |-> {"fragment"},
            failures |-> {Http(404, Null), Http(500, Null)}],
           [navs |-> MaxNavs, hist |-> MaxHist, preloads |-> MaxPreloads],
           MaxFailures + maxRetries)

NextFail ==
  \/ \E link \in {NavLinkA, NavLinkB} : Click(link)
  \/ DefaultAction
  \/ \E link \in {NavLinkA, NavLinkB} : MouseOver(link)
  \/ HoverTimer
  \/ OverlayTimer
  \/ AfterNavTimer
  \/ \E i \in DOMAIN navs : NavBackoffElapsed(i)
  \/ \E i \in DOMAIN navs : \E resp \in ServerResponses(navs[i].path) : NavResponse(i, resp)
  \/ \E j \in DOMAIN preloads : \E resp \in ServerResponses(preloads[j]) : PreloadResponse(j, resp)

SpecFail == InitFail /\ [][NextFail]_vars

\* discovery repeated by the clock: a persistent region with or without an id,
\* afterNavigation run by navigations and by the page's scripts as time passes
InitRegistry ==
  LET region(id, classes) ==
        Element("div", id, classes, <<Pair(<<"data-", "persist">>, "true")>>)
  IN
  /\ timed = TRUE
  /\ now = 0
  /\ doc = {NavLinkA, NavLinkB}
  /\ dom = AllHooks
  /\ net = [versions |-> {1}, bodies |-> {"fragment"}, failures |-> {}]
  /\ lim = [navs |-> 1, hist |-> 2, preloads |-> 0]
  /\ pageAlive = TRUE
  /\ failBudget = 1
  /\ event = NoEvent
  /\ \E id \in {"", "panel"}, classes \in {<<>>, <<"footer">>} :
       \E loaded \in {Loaded(<<"/a">>, <<region(id, classes)>>)} :
         \E constructed \in {ComponentPersistenceInit(loaded)} :
           InitState(Navigate(constructed, <<"/a">>, FALSE, TRUE))

NextRegistry ==
  \/ Tick
  \/ DefaultAction
  \/ OverlayTimer
  \/ AfterNavTimer
  \/ AfterNavigationCall
  \/ \E i \in DOMAIN navs : NavAbort(i)
  \/ \E i \in DOMAIN navs : \E resp \in ServerResponses(navs[i].path) : NavResponse(i, resp)

SpecRegistry == InitRegistry /\ [][NextRegistry]_vars

\* ------------------------------------------------------------ claims
\* C1: at any time at most one navigation is in flight (a navigate call past its
\* guard that has not reached its finally block), under every interleaving of
\* clicks, popstate events, retries and fetch completions.
C1_AtMostOneInFlight == Len(navs) <= 1

\* a step that dispatches a UI event whose handler calls navigate
CallStep == event = NoEvent /\ event' # NoEvent /\ event'.calls # <<>>

\* the call of the event being dispatched
TheCall == event.calls[1]

\* C2: a non-initial navigate call made while isNavigating is true changes
\* nothing: content region, document title, both caches, currentRoute, the
\* history, the loading and error UI and the component state store stay as they
\* are. (The retry control hides the banner itself before it calls navigate.)
C2_Frame ==
  UNCHANGED <<content, title, cache, preloadCache, currentRoute, hist, histIdx,
              indicatorShown, overlayShown, loadingTimeout, errorMessage, errorTimers,
              lastFailedPath, componentStates, activeLinks, navs, isNavigating>>

C2_DroppedNavigateHasNoEffect ==
  [][(CallStep /\ event'.type \in {"click", "retry"} /\ isNavigating
        /\ ~event'.calls[1].isInitial)
       => C2_Frame /\ (event'.type = "click" => UNCHANGED errorShown)]_vars

\* a click on the link of another path than the pending navigation's was dropped
C2_Witness ==
  /\ event.type = "click"
  /\ event.calls # <<>>
  /\ TheCall.did = "dropped"
  /\ navs # <<>>
  /\ \A i \in DOMAIN navs : navs[i].path # TheCall.path

\* a navigate call that passes the guard
C_Accepted == event'.type = "popstate" \/ ~isNavigating

\* C3: for a path present in the confirmed cache, navigate(path) issues no
\* request to the fragment endpoint and renders the cached fragment.
C3_CachedNavigateIssuesNoRequest ==
  [][(CallStep /\ MapHas(cache, event'.calls[1].path))
       => /\ navs' = navs
          /\ preloads' = preloads
          /\ C_Accepted => /\ content' = cache[event'.calls[1].path].content
                           /\ currentRoute' = event'.calls[1].path]_vars

C3_Witness ==
  /\ event.type = "click"
  /\ event.calls # <<>>
  /\ TheCall.did = "cache"
  /\ content = cache[TheCall.path].content
  /\ MapHas(preloadCache, TheCall.path) = FALSE

\* a step in which a navigation renders its fragment: it schedules afterNavigation
C_RenderStep == Len(afterNavTimers') = Len(afterNavTimers) + 1

\* C4: navigate(path) takes the fragment from the confirmed cache, else from the
\* speculative cache without a request, else from the network; right after a
\* navigation has rendered, its fragment is stored under the path in the
\* confirmed cache and the path is absent from the speculative cache.
C4_ResolutionOrderAndPromotion ==
  [][/\ (CallStep /\ C_Accepted) =>
          LET p == event'.calls[1].path IN
          IF Truthy(MapGet(cache, p))
            THEN content' = cache[p].content /\ navs' = navs
          ELSE IF Truthy(MapGet(preloadCache, p))
            THEN content' = preloadCache[p].content /\ navs' = navs
          ELSE /\ Len(navs') = Len(navs) + 1
               /\ navs'[Len(navs')].path = p
               /\ navs'[Len(navs')].phase = "fetch"
               /\ content' = content
     /\ C_RenderStep =>
          /\ MapHas(cache', currentRoute')
          /\ cache'[currentRoute'].content = content'
          /\ ~MapHas(preloadCache', currentRoute')]_vars

\* a click was served from the speculative cache and the fragment promoted
C4_Witness ==
  /\ event.type = "click"
  /\ event.calls # <<>>
  /\ TheCall.did = "preload"
  /\ MapHas(cache, TheCall.path)
  /\ cache[TheCall.path].content = content
  /\ ~MapHas(preloadCache, TheCall.path)

\* ------------------------------------------------------------ fetchPageData, timed
\* the log of the one navigation of the timed specification, by kind of entry
Requests == SelectSeq(fetchLog, LAMBDA e : e.what = "request")

Settlements == SelectSeq(fetchLog, LAMBDA e : e.what \in {"response", "abort"})

Backoffs == SelectSeq(fetchLog, LAMBDA e : e.what = "setTimeout")

IsStatus(e, statuses) ==
  e.what = "response" /\ e.resp.type = "http" /\ e.resp.status \in statuses

IsRejected(e) == e.what = "response" /\ e.resp.type = "reject"

\* the navigation of the timed specification has ended in the error state with message
EndedInError(message) ==
  /\ navs = <<>>
  /\ ~isNavigating
  /\ errorMessage = message
  /\ cache = EmptyMap
  /\ currentRoute = NoPath

\* C5: given a 500 response followed by a 200 response, the call returns the 200
\* payload after exactly one retry, and the retry request is issued no earlier
\* than 1000 ms after the 500 response.
C5_RetryOnceAfter500 ==
  (/\ Len(Settlements) >= 2
   /\ IsStatus(Settlements[1], {500})
   /\ IsStatus(Settlements[2], {200})
   /\ Settlements[2].resp.body.kind = "fragment")
  => /\ Len(Requests) = 2
     /\ Len(Settlements) = 2
     /\ Requests[2].retryCount = 1
     /\ Requests[2].at >= Settlements[1].at + 1000
     /\ navs = <<>>
     /\ content = Settlements[2].resp.body.content
     /\ errorMessage = <<>>

C5_Witness ==
  /\ Len(Settlements) = 2
  /\ IsStatus(Settlements[1], {500})
  /\ IsStatus(Settlements[2], {200})
  /\ Settlements[2].resp.body.kind = "fragment"
  /\ content = Settlements[2].resp.body.content
  /\ Requests[2].at = Settlements[1].at + 1000

\* C6 as stated: given three consecutive 500 responses, the call ends in a
\* terminal error after exactly 3 retries.
C6_ThreeFailuresAreTerminal ==
  (/\ Len(Settlements) >= 3
   /\ \A k \in 1..3 : IsStatus(Settlements[k], {500})
   /\ navs = <<>>)
  => /\ Len(Requests) = 4
     /\ EndedInError(<<"HTTP", "500:", "Internal", "Server", "Error">>)

\* C6: given four consecutive 500 responses (the first attempt and each of the
\* three retries), the call ends in a terminal error after exactly 3 retries; a
\* call never issues more than 3 retries; the delays that precede retries 1, 2
\* and 3 are 1000 ms, 2000 ms and 4000 ms.
C6_FourFailuresAreTerminal ==
  /\ Len(Requests) <= 4
  /\ Len(Backoffs) <= 3
  /\ \A k \in DOMAIN Backoffs : Backoffs[k].delay = <<1000, 2000, 4000>>[k]
  /\ \A k \in DOMAIN Requests :
       /\ Requests[k].retryCount = k - 1
       /\ k > 1 => Requests[k].at >= Backoffs[k - 1].at + <<1000, 2000, 4000>>[k - 1]
  /\ (/\ Len(Settlements) >= 4
      /\ \A k \in 1..4 : IsStatus(Settlements[k], {500}))
     => /\ Len(Requests) = 4
        /\ Len(Settlements) = 4
        /\ EndedInError(<<"HTTP", "500:", "Internal", "Server", "Error">>)

C6_Witness ==
  /\ Len(Settlements) = 4
  /\ \A k \in 1..4 : IsStatus(Settlements[k], {500})
  /\ Len(Backoffs) = 3
  /\ Requests[4].at = 7000
  /\ errorShown

\* C7: a 4xx response is never retried, at whatever retry count it arrives: the
\* call throws at once, having issued one request, and nothing follows.
C7_ClientErrorNotRetried ==
  \A k \in DOMAIN fetchLog :
    IsStatus(fetchLog[k], 400..499)
    => /\ k = Len(fetchLog)
       /\ Len(Requests) = Len(Settlements)
       /\ EndedInError(<<"HTTP">> \o StatusText(fetchLog[k].resp.status))

\* a 404 that answers the first retry
C7_Witness ==
  /\ Len(Settlements) = 2
  /\ IsStatus(Settlements[1], {503})
  /\ IsStatus(Settlements[2], {404})
  /\ errorShown
  /\ errorMessage = <<"HTTP", "404:", "Not", "Found">>

\* C8: an attempt that has no response within 10 s is aborted, and the abort is
\* a terminal timeout error of its own message: no retry follows it.
C8_TimeoutIsTerminal ==
  /\ \A i \in DOMAIN navs :
       navs[i].phase = "fetch" => now <= Requests[Len(Requests)].at + 10000
  /\ \A k \in DOMAIN fetchLog :
       fetchLog[k].what = "abort"
       => /\ k = Len(fetchLog)
          /\ fetchLog[k - 1].what = "request"
          /\ fetchLog[k].at = fetchLog[k - 1].at + 10000
          /\ EndedInError(<<"Request", "timeout", "-", "please", "check", "your",
                            "connection">>)
          /\ \A st \in FailStatuses : errorMessage # HttpError(st).message
          /\ \A e \in NetworkErrors : errorMessage # e.message

\* the first retry times out
C8_Witness ==
  /\ Len(fetchLog) = 5
  /\ fetchLog[5].what = "abort"
  /\ fetchLog[5].at = 11000
  /\ Len(Requests) = 2
  /\ errorShown

\* C9: a rejection of fetch by a network-level failure at a retry count below 3
\* is followed by a retry of the call, with the backoff of a 5xx response.
C9_NetworkFailureRetried ==
  \A k \in DOMAIN fetchLog :
    (IsRejected(fetchLog[k]) /\ fetchLog[k - 1].retryCount < 3)
    => /\ k < Len(fetchLog)
       /\ fetchLog[k + 1].what = "setTimeout"
       /\ fetchLog[k + 1].delay = <<1000, 2000, 4000>>[fetchLog[k - 1].retryCount + 1]

\* ------------------------------------------------------------ link interception
\* the links the router leaves to the browser
C10_Excluded(link) ==
  \/ StartsWith(link.href, "#")
  \/ StartsWith(link.href, "mailto:")
  \/ StartsWith(link.href, "tel:")
  \/ /\ Includes(link.href, "://")
     /\ ~(Len(link.href) >= 3 /\ SubSeq(link.href, 1, 3) = Origin)
  \/ link.target = "_blank"
  \/ "data-no-spa" \in link.attrs
  \/ "external-link" \in link.classes
  \/ "download" \in link.attrs

\* C10: a click on a link whose href starts with #, mailto: or tel:, is a
\* cross-origin absolute URL, or that has target _blank, data-no-spa, the class
\* external-link or the download attribute is never intercepted: the default is
\* not prevented and navigate is not called.
C10_ExcludedLinksNotIntercepted ==
  (event.type = "click" /\ C10_Excluded(event.target))
  => ~event.defaultPrevented /\ event.calls = <<>>

C10_Witness ==
  /\ event.type = "click"
  /\ event.target = DownloadLink
  /\ ~event.defaultPrevented
  /\ event.calls = <<>>
  /\ currentRoute # NoPath

\* the links the router is to take over: a path or a same-origin absolute URL,
\* in none of the excluded categories
C11_Eligible(link) == ~Falsy(link.href) /\ ~C10_Excluded(link)

\* C11: a click on an eligible same-origin link (relative href or same-origin
\* absolute URL) has its default navigation suppressed and results in exactly
\* one navigate call.
C11_EligibleClicksIntercepted ==
  (event.type = "click" /\ C11_Eligible(event.target))
  => event.defaultPrevented /\ Len(event.calls) = 1

\* ------------------------------------------------------------ history
\* a step that dispatches a popstate event, the browser having moved to the entry
PopStateStep == event = NoEvent /\ event' # NoEvent /\ event'.type = "popstate"

\* e.state?.path || window.location.pathname of the entry moved to
C12_EntryPath(entry) ==
  IF entry.state.kind = "state" /\ entry.state.path # <<>>
    THEN entry.state.path ELSE entry.url

\* a step in which a navigate call suspended at its fetch ends, rendered or failed
CallEnds(i) == i \in DOMAIN navs /\ navs' = RemoveAt(navs, i)

\* C12: on popstate the router navigates to the path of the history entry, or to
\* the location pathname when the entry has none; that navigation neither pushes
\* nor replaces a history entry, when it starts and when it ends; a popstate whose
\* path is currentRoute is a no-op: no request, no render, no state change.
C12_PopStateNavigatesWithoutHistory ==
  [][/\ PopStateStep =>
          /\ event'.target = hist[histIdx']
          /\ hist' = hist
          /\ IF C12_EntryPath(event'.target) = currentRoute
               THEN /\ event'.calls = <<>>
                    /\ UNCHANGED <<isNavigating, currentRoute, cache, preloadCache,
                                   lastFailedPath, loadingTimeout, navs, preloads,
                                   content, title, indicatorShown, overlayShown,
                                   errorShown, errorMessage, errorTimers, activeLinks,
                                   componentStates, afterNavTimers>>
               ELSE /\ Len(event'.calls) = 1
                    /\ event'.calls[1].path = C12_EntryPath(event'.target)
                    /\ ~event'.calls[1].pushState
                    /\ ~event'.calls[1].isInitial
                    /\ event'.calls[1].did # "dropped"
     /\ \A i \in DOMAIN navs :
          (CallEnds(i) /\ ~navs[i].pushState /\ ~navs[i].isInitial)
            => hist' = hist /\ histIdx' = histIdx]_vars

\* back to the entry of a failed initial load, which has no state: the path is
\* the location's, and the navigation it started has rendered without a new entry
C12_Witness ==
  /\ event = NoEvent
  /\ navs = <<>>
  /\ Len(hist) = 2
  /\ histIdx = 1
  /\ hist[1].state.kind = "null"
  /\ currentRoute = hist[1].url
  /\ hist[2].state.path # currentRoute
  /\ MapHas(cache, currentRoute)

\* the entry {path, timestamp, title} a navigation to path leaves: the title is the
\* fragment's or, the fragment having none, the document title as it was
C13_Entry(path) ==
  [state |-> [kind |-> "state", path |-> path, timestamp |-> now,
              title |-> IF cache'[path].title # "" THEN cache'[path].title ELSE title],
   url |-> path]

C13_Pushed(path) ==
  /\ hist' = Append(SubSeq(hist, 1, histIdx), C13_Entry(path))
  /\ histIdx' = histIdx + 1

C13_Replaced(path) ==
  /\ hist' = [hist EXCEPT ![histIdx] = C13_Entry(path)]
  /\ histIdx' = histIdx

FailStep == Len(errorTimers') = Len(errorTimers) + 1

\* C14: after a navigation to path p has failed, activating the retry control
\* hides the banner and calls navigate(p), p being the path whose navigation
\* failed, whatever route was shown before the failure.
C14_RetryNavigatesToFailedPath ==
  [][/\ \A i \in DOMAIN navs :
          (CallEnds(i) /\ FailStep) => lastFailedPath' = navs[i].path
     /\ (event = NoEvent /\ event' # NoEvent /\ event'.type = "retry")
          => /\ ~errorShown'
             /\ Len(event'.calls) = 1
             /\ event'.calls[1].path = lastFailedPath]_vars

\* a step in which an auto-hide timer fires and hides the banner
AutoHideStep == Len(errorTimers') < Len(errorTimers) /\ errorShown /\ ~errorShown'

\* C15: every terminal failure makes the banner visible with the failure
\* message; the banner of a failure is hidden by dismiss, by retry, or by its
\* timer 10 seconds after the failure was shown, and no timer hides it before
\* those 10 seconds are over, whatever failures and dismissals came before.
C15_BannerLifetime ==
  [][/\ FailStep => errorShown' /\ errorMessage' # <<>>
     /\ errorShown => now <= errorTimers[Len(errorTimers)]
     /\ AutoHideStep => now >= (errorTimers[Len(errorTimers)] - 10000) + 10000]_vars

\* ------------------------------------------------------------ preloading
\* preload fetches in flight: the router's and the preloader's
InFlight == Len(preloads) + Len(preloader.fetches)

\* C16: never more than 2 preload fetches are in flight at one time, however
\* many links are hovered or come into view and in whatever order the fetches
\* complete; a request that arrives while 2 are in flight is enqueued, not fetched.
C16_AtMostTwoPreloadsInFlight ==
  [][/\ Len(preloads') + Len(preloader'.fetches) <= 2
     /\ (InFlight >= 2 /\ (HoverTimer \/ PreloaderHoverTimer \/ VisibilityTimer))
          => /\ preloads' = preloads
             /\ preloader'.fetches = preloader.fetches]_vars

\* C17: hovering an eligible, uncached link for longer than the 100 ms debounce
\* issues exactly one preload fetch for its path: the router's timer, set 100 ms
\* ahead, issues it when it fires, not earlier, and the preloader's timer issues
\* none; the pointer leaving before the timers have fired cancels them, and no
\* fetch is issued.
C17_HoverDebounce ==
  [][/\ \A link \in doc :
          (MouseOver(link) /\ preloadTimeout' # preloadTimeout)
            => preloadTimeout' = <<[href |-> link.href, link |-> link, due |-> now + 100]>>
     /\ (HoverTimer /\ ~MapHas(cache, preloadTimeout[1].href)
                    /\ ~MapHas(preloadCache, preloadTimeout[1].href))
          => /\ now >= preloadTimeout[1].due
             /\ preloads' = Append(preloads, preloadTimeout[1].href)
             /\ preloader'.fetches = preloader.fetches
     /\ PreloaderHoverTimer
          => preloads' = preloads /\ preloader'.fetches = preloader.fetches
     /\ MouseOut
          => /\ preloadTimeout' = <<>>
             /\ preloader'.hoverTimeouts = <<>>
             /\ preloads' = preloads
             /\ preloader'.fetches = preloader.fetches
     /\ Len(preloads') + Len(preloader'.fetches) > InFlight
          => preloadTimeout # <<>> /\ now >= preloadTimeout[1].due]_vars

\* both timers of one hover have fired, later than the delay: one fetch is in flight
C17_Witness ==
  /\ now >= 1000
  /\ preloadTimeout = <<>>
  /\ preloader.hoverTimeouts = <<>>
  /\ Len(preloads) = 1
  /\ preloader.fetches = <<>>
  /\ preloads[1] \in preloader.unhandled
  /\ ~MapHas(cache, preloads[1])

\* the links no preload is to be fetched for
C18_Excluded(link) ==
  \/ /\ Includes(link.href, "://")
     /\ ~(Len(link.href) >= 3 /\ SubSeq(link.href, 1, 3) = Origin)
  \/ StartsWith(link.href, "#")
  \/ StartsWith(link.href, "mailto:")
  \/ StartsWith(link.href, "tel:")
  \/ MapHas(cache, link.href)
  \/ MapHas(preloadCache, link.href)
  \/ \E j \in DOMAIN preloads : preloads[j] = link.href
  \/ link.href \in preloader.preloadingInProgress
  \/ "data-no-preload" \in link.attrs
  \/ "download" \in link.attrs

\* C18: no preload fetch is issued, by a hover or by a visibility trigger, for a
\* link that is cross-origin, a fragment, mailto or tel link, resolved in the
\* confirmed or the speculative cache, mid-preload, marked data-no-preload, or a
\* download link.
C18_NoPreloadOfExcludedLinks ==
  [][/\ Len(preloads') > Len(preloads)
          => ~C18_Excluded(preloadTimeout[1].link)
     /\ Len(preloader'.fetches) > Len(preloader.fetches)
          => \E link \in doc :
               /\ link.href = preloader'.fetches[Len(preloader'.fetches)].href
               /\ ~C18_Excluded(link)]_vars

\* C19: the priority of a navigation-chrome link is 1, of a button link 2, of a
\* plain content link 3; whenever a response frees a slot of the preloader and
\* tasks are queued, the first queued task of the least priority integer leaves
\* the queue and is the one started (in progress, its fetch issued), and no task
\* is started while a queued task of strictly lower integer remains.
C19_SlotFrees ==
  \E j \in DOMAIN preloader.fetches :
    /\ Len(preloader'.fetches) <= Len(preloader.fetches)
    /\ preloader.fetches[j].href \notin preloader'.preloadingInProgress

C20_Entries(entries) == {entries[k] : k \in DOMAIN entries}

C20_CleanupEvictsOldest ==
  [][CleanupTick =>
       LET before == preloader.preloadCache
           after == preloader'.preloadCache
           n == Len(before)
           removed == C20_Entries(before) \ C20_Entries(after)
       IN IF n > 20
            THEN /\ Len(after) = 20
                 /\ Cardinality(removed) = n - 20
                 /\ after = SelectSeq(before, LAMBDA e : e \notin removed)
                 /\ \A e \in removed : \A f \in C20_Entries(after) : e.timestamp <= f.timestamp
                 /\ DOMAIN preloadCache' = (DOMAIN preloadCache) \ {e.href : e \in removed}
                 /\ \A h \in DOMAIN preloadCache' : preloadCache'[h] = preloadCache[h]
                 /\ (\A k \in 1..(n - 1) : before[k].timestamp < before[k + 1].timestamp)
                      => after = SubSeq(before, n - 19, n)
            ELSE /\ after = before
                 /\ preloadCache' = preloadCache]_vars

\* 25 pages stored at increasing times have been cleaned up: pages 1 to 5 are gone
\* from both caches, pages 6 to 25 remain in both
C20_Witness ==
  /\ Len(preloader.preloadCache) = 20
  /\ \A k \in 1..20 :
       /\ preloader.preloadCache[k].href = <<"/p", ToString(k + 5)>>
       /\ preloader.preloadCache[k].timestamp = 1000 * (k + 5)
       /\ <<"/p", ToString(k + 5)>> \in DOMAIN preloadCache
  /\ \A k \in 1..5 : <<"/p", ToString(k)>> \notin DOMAIN preloadCache

\* an href shouldPreload accepts for every element without data-no-preload and
\* download: same origin, no #, mailto: or tel:, in neither cache of the router,
\* not being preloaded
EligibleHref(href) ==
  /\ ~Falsy(href)
  /\ ~(StartsWith(href, "#") \/ StartsWith(href, "mailto:") \/ StartsWith(href, "tel:"))
  /\ ~Includes(href, "://")
  /\ ~MapHas(cache, href)
  /\ ~MapHas(preloadCache, href)
  /\ href \notin preloader.preloadingInProgress

\* C21: preloadNow(href) for an eligible href issues its fetch at once
\* at priority 1 and source manual: the href is in progress, its fetch is
\* pending and the queue is as it was, however many preloads are in flight or
\* queued.
C21_PreloadNowFetchesAtOnce ==
  [][\A href \in {<<"/b">>, <<"/d">>} :
       (PreloadNowCall(href) /\ EligibleHref(href))
         => /\ preloader'.fetches = Append(preloader.fetches, Task(href, 1, "manual"))
            /\ preloader'.preloadingInProgress = preloader.preloadingInProgress \cup {href}
            /\ preloader'.preloadQueue = preloader.preloadQueue]_vars

\* C22: when a hover or visibility timer of the preloader fires for an eligible
\* href while fewer than 2 preloads of the preloader are in progress, preloadPage
\* puts the href in progress and issues its fetch; and when a fetch of the
\* preloader is answered 200 with a fragment, the fragment is stored under the
\* href in the router's speculative cache and in the preloader's cache with the
\* time, the priority and the source, a pagePreloaded event with href, source and
\* size is emitted and the href is no longer in progress.
C22_Started(task) ==
  /\ task.href \in preloader'.preloadingInProgress
  /\ \E i \in DOMAIN preloader'.fetches : preloader'.fetches[i] = task

C22_PreloadStoresFragment ==
  [][/\ \A k \in DOMAIN preloader.hoverTimeouts :
          LET t == preloader.hoverTimeouts[k] IN
          (/\ PreloaderHoverTimer
           /\ preloader'.hoverTimeouts = RemoveAt(preloader.hoverTimeouts, k)
           /\ EligibleHref(t.href)
           /\ Cardinality(preloader.preloadingInProgress) < maxConcurrentPreloads)
            => C22_Started(Task(t.href, t.priority, "hover"))
     /\ \A k \in DOMAIN preloader.visibilityTimers :
          LET t == preloader.visibilityTimers[k] IN
          (/\ VisibilityTimer
           /\ k = 1
           /\ EligibleHref(t.href)
           /\ Cardinality(preloader.preloadingInProgress) < maxConcurrentPreloads)
            => C22_Started(Task(t.href, t.priority, "visibility"))
     /\ \A j \in DOMAIN preloader.fetches :
          LET task == preloader.fetches[j] IN
          \A v \in net.versions :
            PreloaderResponse(j, Http(200, Fragment(task.href, v)))
              => /\ MapGet(preloadCache', task.href) = Fragment(task.href, v)
                 /\ \E e \in DOMAIN preloader'.preloadCache :
                      preloader'.preloadCache[e] =
                        [href |-> task.href, data |-> Fragment(task.href, v),
                         timestamp |-> now, priority |-> task.priority,
                         source |-> task.source]
                 /\ Len(preloader'.emitted) = Len(preloader.emitted) + 1
                 /\ task.href \notin preloader'.preloadingInProgress]_vars

\* C23: when a preload request of the router or of the preloader is answered
\* with a non-2xx status or a network error, the error banner, its message and
\* the content region are as before, neither cache of the router nor the
\* preloader's cache changes, and the request is no longer in flight (for the
\* preloader: the href is no longer in progress); a click afterwards on the link
\* to that path, the path in neither cache and no navigation in flight, issues a
\* network fetch for it.
C23_Quiet ==
  /\ errorShown' = errorShown
  /\ errorMessage' = errorMessage
  /\ content' = content
  /\ cache' = cache
  /\ preloadCache' = preloadCache
  /\ preloader'.preloadCache = preloader.preloadCache

C23_PreloadFailed(path) ==
  \E k \in DOMAIN fetchLog :
    fetchLog[k].what = "preload" /\ fetchLog[k].path = path /\ Failed(fetchLog[k].resp)

C23_FailedPreloadIsSilent ==
  [][/\ \A j \in DOMAIN preloads : \A resp \in net.failures :
          PreloadResponse(j, resp) => C23_Quiet /\ preloads' = RemoveAt(preloads, j)
     /\ \A j \in DOMAIN preloader.fetches : \A resp \in net.failures :
          PreloaderResponse(j, resp)
            => /\ C23_Quiet
               /\ preloader'.fetches = RemoveAt(preloader.fetches, j)
               /\ preloader.fetches[j].href \notin preloader'.preloadingInProgress
     /\ \A link \in doc :
          (/\ Click(link)
           /\ C23_PreloadFailed(link.href)
           /\ ~isNavigating
           /\ ~MapHas(cache, link.href)
           /\ ~MapHas(preloadCache, link.href))
            => navs' = Append(navs, NavCall(link.href, TRUE, FALSE, 0, "fetch",
                                            now + FetchTimeoutMs))]_vars

\* the preload of /b has failed and the banner is hidden, page /a is shown, /b is
\* in neither cache, and the click on the link to /b has its fetch pending
C23_Witness ==
  /\ C23_PreloadFailed(<<"/b">>)
  /\ fetchLog[Len(fetchLog)].what = "request"
  /\ Len(navs) = 1
  /\ navs[1].path = <<"/b">>
  /\ navs[1].phase = "fetch"
  /\ ~navs[1].isInitial
  /\ ~errorShown
  /\ content = Fragment(<<"/a">>, 1).content
  /\ ~MapHas(cache, <<"/b">>)
  /\ ~MapHas(preloadCache, <<"/b">>)
  /\ preloader.preloadCache = <<>>

\* C27: right after a navigation to path p has rendered the fragment the server
\* answered with, the navigation links that carry the active marker are exactly
\* the links of class nav-link whose normalized href is the normalized p (none
\* when no link matches), whether or not #active-background is in the document.
C27_Matching(path) ==
  {l.href : l \in {x \in doc : /\ "nav-link" \in x.classes
                                /\ ~Falsy(x.href)
                                /\ NormalizePath(x.href) = NormalizePath(path)}}

C27_Rendered(i) ==
  /\ content' = Fragment(navs[i].path, 1).content
  /\ currentRoute' = navs[i].path

C27_MatchingLinkIsActive ==
  [][\A i \in DOMAIN navs :
       (NavResponse(i, Http(200, Fragment(navs[i].path, 1))) /\ C27_Rendered(i))
         => activeLinks' = C27_Matching(navs[i].path)]_vars

\* C28: in a document that lacks one of the elements the router looks up, a
\* navigation whose request is answered 200 with the fragment ends with the
\* fragment in the confirmed cache, currentRoute the path, the history entry
\* written (when the call writes one), the restore of the chrome state scheduled, and the error state
\* untouched: no banner raised, no banner timer armed, no failed path recorded.
C28_MissingHookIsNoOp ==
  [][\A i \in DOMAIN navs :
       NavResponse(i, Http(200, Fragment(navs[i].path, 1)))
         => /\ MapGet(cache', navs[i].path) = Fragment(navs[i].path, 1)
            /\ currentRoute' = navs[i].path
            /\ (navs[i].pushState \/ navs[i].isInitial) => hist'[histIdx'].url = navs[i].path
            /\ Len(afterNavTimers') = Len(afterNavTimers) + 1
            /\ errorShown' => errorShown
            /\ errorTimers' = errorTimers
            /\ lastFailedPath' = lastFailedPath]_vars

\* C29: when the fragment endpoint answers a navigation 200 with a body that is
\* the JSON null or is not JSON, the navigation ends with the error banner shown
\* and the confirmed cache as it was.
C29_MalformedFragmentSurfaced ==
  [][\A i \in DOMAIN navs : \A body \in {Null, NotJson} :
       NavResponse(i, Http(200, body)) => errorShown' /\ cache' = cache]_vars

\* C30: a click that starts a navigation snapshots the sidebar as it is before
\* anything else changes, the content swap coming no earlier; and when the
\* navigation pushes its history entry, the restore of the chrome state
\* (afterNavigation) has run already: none is left pending by that step.
C30_LifecycleOrder ==
  [][/\ (CallStep /\ event'.type = "click" /\ event'.calls[1].did # "dropped")
          => /\ MapGet(componentStates', "sidebar").scrollPosition.top = scrollTop
             /\ Len(MapGet(componentStates', "sidebar").activeElements) = Cardinality(activeLinks)
             /\ event'.calls[1].did = "network" => content' = content
     /\ \A i \in DOMAIN navs :
          (/\ NavResponse(i, Http(200, Fragment(navs[i].path, 1)))
           /\ navs[i].pushState
           /\ ~navs[i].isInitial
           /\ Len(hist') = histIdx + 1)
            => Len(afterNavTimers') <= Len(afterNavTimers)]_vars

\* C24: restoreComponentState(element, captureComponentState(element)) on the
\* element of a registered component leaves the element and its descendants as
\* they were: scroll offsets, classes, attributes, field values and styles.
C24_CaptureRestoreIsIdentity ==
  [][\A k \in DOMAIN staticComponents :
       \A times \in ClockReadings(ElementOf(R, staticComponents[k].node)) :
         CaptureRestore(k, times)
           => /\ nodes' = nodes
              /\ scrollTop' = scrollTop
              /\ activeLinks' = activeLinks]_vars

\* C25: with #sidebar registered under its id and left alone by the user, no
\* navigation and no restore moves its scroll offset, and whenever no navigation
\* and no restore is pending the one navigation link carrying the active class
\* is the link to the current route: after A -> B -> A the sidebar is at the
\* offset it had at A and the link to A is active again.
C25_Settled == navs = <<>> /\ afterNavTimers = <<>> /\ event = NoEvent /\ ~isNavigating

C25_SidebarRoundTrip ==
  /\ [][scrollTop' = scrollTop]_vars
  /\ [](C25_Settled => activeLinks = {currentRoute})

\* settled at /a again after a click to /b and a click back, the sidebar at
\* offset 120
C25_Witness ==
  /\ C25_Settled
  /\ Len(hist) = 3
  /\ histIdx = 3
  /\ hist[1].url = <<"/a">>
  /\ hist[2].url = <<"/b">>
  /\ hist[3].url = <<"/a">>
  /\ currentRoute = <<"/a">>
  /\ scrollTop = 120
  /\ activeLinks = {<<"/a">>}
  /\ MapGet(componentStates, "sidebar").scrollPosition.top = 120

\* C26: no step removes an identity from componentStates; and afterNavigation,
\* called directly or by the router's timer, leaves the element of every
\* component that is no longer in the document as it is, a direct call ending
\* without an exception.
C26_RegionGone(k) == ~ElementOf(R, staticComponents[k].node).connected

C26_NothingRestored ==
  \A k \in DOMAIN staticComponents :
    C26_RegionGone(k) => nodes'[staticComponents[k].node] = nodes[staticComponents[k].node]

C26_SnapshotsKept ==
  /\ [][DOMAIN componentStates \subseteq DOMAIN componentStates']_vars
  /\ [][AfterNavTimer => C26_NothingRestored]_vars
  /\ [][(AfterNavigationCall /\ \E k \in DOMAIN staticComponents : C26_RegionGone(k))
          => C26_NothingRestored /\ event'.exc = Null]_vars

\* ------------------------------------------------------------ route keys
\* the confirmed cache holds an entry for the route path names
C31_RouteCached(path) ==
  \E q \in DOMAIN cache : NormalizePath(q) = NormalizePath(path)

\* C31: caching is keyed by the normalized route path: once a navigation to p has
\* succeeded, an accepted navigate(p') for a p' that normalizes to the same route
\* as p is served from the confirmed cache without a request, and the two share
\* one cache entry.
C31_CacheKeyedByNormalizedPath ==
  [][/\ (CallStep /\ C_Accepted /\ C31_RouteCached(event'.calls[1].path))
          => navs' = navs /\ cache' = cache
     /\ \A p \in DOMAIN cache', q \in DOMAIN cache' :
          NormalizePath(p) = NormalizePath(q) => p = q]_vars

\* /a is in the confirmed cache and a click on the link to /a/ has been accepted
C31_Witness ==
  /\ event.type = "click"
  /\ event.target = SlashLinkA
  /\ event.calls # <<>>
  /\ MapHas(cache, <<"/a">>)
  /\ TheCall.did # "dropped"

\* ------------------------------------------------------------ superseded navigations
\* the pending navigate call i has been superseded: a popstate has cleared its
\* lock, the navigation it started has ended or is pending behind it
C32_Superseded(i) == i < Len(navs) \/ ~isNavigating

\* C32: a navigation superseded by a later popstate never renders, never updates
\* currentRoute and never pushes a history entry after the superseding navigation
\* has started, so that once every navigation has completed the page shows the
\* path most recently requested.
C32_SupersededNeverRenders ==
  [][\A i \in DOMAIN navs :
       (CallEnds(i) /\ C32_Superseded(i))
         => ~C_RenderStep /\ UNCHANGED <<content, title, currentRoute, hist, histIdx>>]_vars

\* a click navigation is pending while a popstate served from the cache has shown
\* another path and released the lock
C32_Witness ==
  /\ Len(navs) = 1
  /\ navs[1].pushState
  /\ navs[1].phase = "fetch"
  /\ ~isNavigating
  /\ event.type = "popstate"
  /\ event.calls # <<>>
  /\ TheCall.did = "cache"
  /\ currentRoute = TheCall.path
  /\ currentRoute # navs[1].path

\* ------------------------------------------------------------ the two caches
\* C35: the confirmed cache and the router's speculative cache are disjoint in
\* every reachable state: no path is present in both at once, whether a hover
\* preload completes before or after the navigation to its path.
C35_CachesDisjoint == (DOMAIN cache) \cap (DOMAIN preloadCache) = {}

\* ------------------------------------------------------------ route and history
\* C40: whenever no navigation is in flight, currentRoute equals the path of the
\* browser's current history entry and the content region shows the fragment for
\* that path, after any sequence of successful and failed click navigations,
\* popstate navigations and the initial load.
C40_RouteMatchesHistory ==
  (navs = <<>> /\ ~isNavigating)
  => /\ currentRoute = C12_EntryPath(hist[histIdx])
     /\ content.route = RouteOf(currentRoute)

\* ------------------------------------------------------------ failed navigations
\* what a failed navigation leaves alone
C34_Frame ==
  UNCHANGED <<content, title, currentRoute, cache, preloadCache, hist, histIdx,
              activeLinks, scrollTop>>

\* C34: when a navigation fails terminally (fetchPageData throws: a refused
\* request, the retries used up, a network failure that is not retried), the
\* content region, the document title, currentRoute, both caches and the history
\* are as they were before the navigate call: the call changes none of them when
\* it starts nor when it fails, and it ends with the lock released.
C34_FailedNavigationChangesNothing ==
  [][/\ (CallStep /\ C_Accepted /\ event'.calls[1].did = "network")
          => UNCHANGED <<content, title, currentRoute, cache, preloadCache, hist>>
     /\ \A i \in DOMAIN navs : \A resp \in ServerResponses(navs[i].path) :
          (NavResponse(i, resp) /\ FetchSettled(navs[i].retryCount, resp).kind = "throw")
            => /\ C34_Frame
               /\ navs' = RemoveAt(navs, i)
               /\ ~isNavigating'
               /\ ~indicatorShown' /\ ~overlayShown'
               /\ errorShown']_vars

\* the third retry of a navigation away from a rendered page has been answered
\* 500: the banner is up over the page as it was, the speculative cache filled
C34_Witness ==
  /\ navs = <<>>
  /\ errorShown
  /\ errorMessage = <<"HTTP", "500:", "Internal", "Server", "Error">>
  /\ failBudget = MaxFailures + maxRetries - 4
  /\ currentRoute # NoPath
  /\ content.route = currentRoute
  /\ content.ver = 1
  /\ DOMAIN preloadCache # {}
  /\ ~isNavigating

\* ------------------------------------------------------------ cleanup and the router's cache
\* C36: right after every periodic cleanup tick the router's speculative cache
\* holds at most 20 entries and every path in it is tracked in the preloader's
\* own cache, whatever router hover preloads, preloader preloads and navigations
\* came before the tick.
C36_CleanupBoundsRouterCache ==
  [][CleanupTick =>
       /\ Cardinality(DOMAIN preloadCache') <= maxCacheSize
       /\ \A h \in DOMAIN preloadCache' :
            \E k \in DOMAIN preloader'.preloadCache : preloader'.preloadCache[k].href = h]_vars

\* ------------------------------------------------------------ the component registry
\* the elements of the document a static selector matches: #sidebar and the
\* persistent regions still in the document
C37_MatchingElements ==
  {n \in 0..Len(nodes) :
     /\ ElementOf(R, n).connected
     /\ \E s \in DOMAIN StaticSelectors : MatchesStatic(ElementOf(R, n), StaticSelectors[s])}

\* C37: the registry of persistent components holds at most one entry per
\* matching element: discovery repeated over an unchanged DOM (initialization,
\* then afterNavigation again and again) never adds an entry, for elements
\* without an author-assigned id as for the others.
C37_RegistryBounded ==
  [][(nodes' = nodes /\ (\A n \in 1..Len(nodes) : nodes[n].connected))
       => /\ Len(staticComponents') <= Len(staticComponents)
          /\ Len(staticComponents') <= Cardinality(C37_MatchingElements)]_vars

C33_LockEventuallyReleased ==
  /\ isNavigating ~> (~isNavigating /\ ~indicatorShown /\ ~overlayShown)
  /\ (navs # <<>>) ~> (navs = <<>>)

\* the fourth 500 in a row has ended the initial load: the lock is free and the
\* loading UI hidden under the banner
C33_Witness ==
  /\ ~isNavigating
  /\ ~indicatorShown
  /\ navs = <<>>
  /\ errorShown
  /\ Len(Requests) = 4
  /\ Len(Backoffs) = 3
====
